---- MODULE Spec2Model ----
(***************************************************************************)
(* Model of the nested-join build (scripts/02_build_nested_data.py,        *)
(* scripts/nesting.py), of its tokenizer (scripts/_utils.py) and of the    *)
(* donor/agency filter audit scripts (detailed_filter_analysis.py,         *)
(* find_excluded_projects.py).                                             *)
(*                                                                         *)
(* A Python str is a sequence of one-character strings, so that strip(),   *)
(* lower(), slicing and the character loop of the tokenizer are computed   *)
(* and not assumed.  A Python value of unknown type (a field of a record)  *)
(* is a tagged record: Str(s), List(l) or None.  A dict is the sequence of *)
(* its (key, value) pairs in insertion order.                              *)
(***************************************************************************)
EXTENDS Integers, Sequences, FiniteSets, TLC

VARIABLES
    \* ---- scripts/_utils.py split_respecting_parentheses, one call ----
    text,           \* the argument
    tpos,           \* index of the next character the for loop reads
    tokens,         \* tokens
    current,        \* current
    depth,          \* depth
    in_quotes,      \* in_quotes
    quote_char,     \* quote_char ("" when none)
    cleaned,        \* the returned list
    tpc,            \* "call" | "loop" | "done" | "idle"
    \* ---- the three input tables ----
    organizations,
    agencies,
    projects,
    \* ---- scripts/02_build_nested_data.py main ----
    agencies_by_id,
    agencies_by_name,
    projects_by_org,
    nested,         \* the list written to organizations-nested.json
    \* ---- a second run of main, on the same agency and project tables ----
    rerun_orgs,     \* the organization table of the second run
    rerun,          \* the list the second run writes
    \* ---- scripts/nesting.py main ----
    n_agencies_by_org,
    n_agencies_by_name,
    n_projects_by_org,
    n_agencies_by_id,
    n_nested,       \* the list nesting.py writes to organizations-nested.json
    \* ---- detailed_filter_analysis.py ----
    selected_agencies,              \* the selected agency names the loop passes
    germany_only_orgs,
    germany_only_projects,
    germany_with_agencies_orgs,
    germany_with_agencies_projects,
    excluded_orgs,
    visible_projects,               \* of the last iteration of the FILTER 2 loop
    should_show,                    \* of the last iteration of the FILTER 2 loop
    \* ---- scripts/01_fetch_airtable.py main and fetch_all_records ----
    f_config,       \* the configuration: the required keys and the optional tables
    f_server,       \* the pages the server holds of every table
    f_table,        \* the table fetch_all_records is called on ("" outside a call)
    f_all_records,  \* all_records of the call
    f_offset,       \* offset of the call
    f_sent,         \* per table, the offsets sent with the requests so far
    f_got,          \* per table, the responses received so far
    f_returned,     \* per table, how the call ended and the list it returned
    f_saved,        \* the tables whose file save_json has written
    f_errors,       \* validation_errors
    f_launched,     \* the nesting script has been launched
    f_status,       \* the exit status of the process (-1 while it runs)
    f_pc,           \* "idle" | "start" | "fetching" | "fetched" | "nesting" | "exited"
    \* ---- control ----
    i,              \* index of the next organization a loop reads
    pc              \* "start" | "orgs" | "built" | "filter1" | "filter2" | "done" |
                    \* "crashed" | "nesting_indexed" | "nesting_built" | "rebuilt" | "idle"

tokvars == <<text, tpos, tokens, current, depth, in_quotes, quote_char, cleaned, tpc>>

inputvars == <<organizations, agencies, projects>>

buildvars == <<agencies_by_id, agencies_by_name, projects_by_org, nested>>

rerunvars == <<rerun_orgs, rerun>>

nestingvars ==
    <<n_agencies_by_org, n_agencies_by_name, n_projects_by_org, n_agencies_by_id, n_nested>>

filtervars ==
    <<selected_agencies, germany_only_orgs, germany_only_projects, germany_with_agencies_orgs,
      germany_with_agencies_projects, excluded_orgs, visible_projects, should_show>>

fetchvars ==
    <<f_config, f_server, f_table, f_all_records, f_offset, f_sent, f_got, f_returned, f_saved,
      f_errors, f_launched, f_status, f_pc>>

vars == <<tokvars, inputvars, buildvars, rerunvars, nestingvars, filtervars, fetchvars, i, pc>>

-----------------------------------------------------------------------------
(* Bounds *)

\* longest text enumerated exhaustively for one tokenizer call
MaxLen == 4

\* longest agency table enumerated over the agency pool
MaxAgencies == 2

\* longest project table enumerated over the project pool
MaxProjects == 2

\* longest organization table enumerated over the organization pool
MaxOrgs == 2

-----------------------------------------------------------------------------
(* Python str primitives *)

UpperLetters == <<"A", "B", "C", "D", "E", "F", "G", "H", "I", "J", "K", "L", "M",
                  "N", "O", "P", "Q", "R", "S", "T", "U", "V", "W", "X", "Y", "Z">>
LowerLetters == <<"a", "b", "c", "d", "e", "f", "g", "h", "i", "j", "k", "l", "m",
                  "n", "o", "p", "q", "r", "s", "t", "u", "v", "w", "x", "y", "z">>

\* str.lower() on one character
LowerChar(c) ==
    IF \E k \in DOMAIN UpperLetters : UpperLetters[k] = c
    THEN LowerLetters[CHOOSE k \in DOMAIN UpperLetters : UpperLetters[k] = c]
    ELSE c

\* str.lower()
lower(s) == [k \in DOMAIN s |-> LowerChar(s[k])]

\* str.isspace() on one character (the only whitespace of the alphabet is " ")
IsSpace(c) == c = " "

RECURSIVE lstrip(_)
lstrip(s) == IF s # <<>> /\ IsSpace(Head(s)) THEN lstrip(Tail(s)) ELSE s

RECURSIVE rstrip(_)
rstrip(s) ==
    IF s # <<>> /\ IsSpace(s[Len(s)]) THEN rstrip(SubSeq(s, 1, Len(s) - 1)) ELSE s

\* str.strip()
strip(s) == rstrip(lstrip(s))

\* s.startswith(c) and s.endswith(c) for a one-character c
startswith(s, c) == s # <<>> /\ s[1] = c
endswith(s, c) == s # <<>> /\ s[Len(s)] = c

\* s[1:-1]
Slice1m1(s) == SubSeq(s, 2, Len(s) - 1)

\* max(0, n)
Max0_unclamped(n) == n
Max0(n) == IF n < 0 THEN 0 ELSE n

-----------------------------------------------------------------------------
(* scripts/_utils.py: split_respecting_parentheses *)

QuoteChars == {"\"", "'"}
SplitChars == {",", ";"}

\* lines 221-223 and 228-229: append current.strip() when it is non-empty
AppendToken(toks, cur) == IF strip(cur) # <<>> THEN Append(toks, strip(cur)) ELSE toks

\* the condition of line 220
SplitHere_depthblind(ch, st) == ch \in SplitChars /\ ~st.in_quotes
SplitHere(ch, st) == ch \in SplitChars /\ ~st.in_quotes /\ st.depth = 0

\* One iteration of the for loop (lines 196-226) on the loop state
\* st = [tokens, current, depth, in_quotes, quote_char] and character ch.
TokStep(st, ch) ==
    IF ch \in QuoteChars /\ ~st.in_quotes
    THEN [st EXCEPT !.in_quotes = TRUE, !.quote_char = ch, !.current = Append(@, ch)]
    ELSE IF ch = st.quote_char /\ st.in_quotes
    THEN [st EXCEPT !.in_quotes = FALSE, !.quote_char = "", !.current = Append(@, ch)]
    ELSE IF ch = "(" /\ ~st.in_quotes
    THEN [st EXCEPT !.depth = @ + 1, !.current = Append(@, ch)]
    ELSE IF ch = ")" /\ ~st.in_quotes
    THEN [st EXCEPT !.depth = Max0(@ - 1), !.current = Append(@, ch)]
    ELSE IF SplitHere(ch, st)
    THEN [st EXCEPT !.tokens = AppendToken(@, st.current), !.current = <<>>]
    ELSE [st EXCEPT !.current = Append(@, ch)]

\* lines 190-194
TokInitState ==
    [tokens |-> <<>>, current |-> <<>>, depth |-> 0, in_quotes |-> FALSE, quote_char |-> ""]

\* lines 233-238: one token of the "clean quotes" loop
CleanToken(token) ==
    LET t == strip(token) IN
    IF (startswith(t, "\"") /\ endswith(t, "\"")) \/ (startswith(t, "'") /\ endswith(t, "'"))
    THEN strip(Slice1m1(t))
    ELSE t

\* lines 232-240
CleanTokens(toks) == [k \in DOMAIN toks |-> CleanToken(toks[k])]

\* the for loop over the characters of s, from the loop state st.  The text
\* is folded by halves, the state after the left half being computed before
\* the right half is entered; the characters are still read left to right.
RECURSIVE TokFold(_, _)
TokFold(st, s) ==
    IF s = <<>> THEN st
    ELSE IF Len(s) = 1 THEN TokStep(st, s[1])
    ELSE LET half == Len(s) \div 2
             left == TokFold(st, SubSeq(s, 1, half))
         IN IF left.depth = left.depth THEN TokFold(left, SubSeq(s, half + 1, Len(s))) ELSE left

\* the whole function, as its callers in the build use it
split_respecting_parentheses(s) ==
    IF s = <<>> THEN <<>>
    ELSE LET st == TokFold(TokInitState, s)
         IN CleanTokens(AppendToken(st.tokens, st.current))

-----------------------------------------------------------------------------
(* Python values, records and dicts *)

Str(s) == [t |-> "str", v |-> s]
List(l) == [t |-> "list", v |-> l]
None == [t |-> "none", v |-> <<>>]

IsStr(x) == x.t = "str"
IsList(x) == x.t = "list"

\* truth value of a Python value: None, "" and [] are false
Truthy(x) == x.v # <<>>

\* a or b
PyOr(a, b) == IF Truthy(a) THEN a ELSE b

\* d.get(k) on a field mapping
Get(fields, k) == IF k \in DOMAIN fields THEN fields[k] ELSE None

\* d.get(k, default)
GetOr(fields, k, default) == IF k \in DOMAIN fields THEN fields[k] ELSE default

\* the empty field mapping {}
NoFields == <<>>

PyNoneText == <<"N", "o", "n", "e">>

\* repr() of a str without quotes or backslashes in it
ReprStr(s) == <<"'">> \o s \o <<"'">>

RECURSIVE ReprItems(_)
ReprItems(l) ==
    IF l = <<>> THEN <<>>
    ELSE LET first == IF IsStr(Head(l)) THEN ReprStr(Head(l).v) ELSE PyNoneText
         IN IF Len(l) = 1 THEN first ELSE first \o <<",", " ">> \o ReprItems(Tail(l))

\* str(x) for a str, None or a flat list
PyStrOf(x) ==
    IF IsStr(x) THEN x.v
    ELSE IF IsList(x) THEN <<"[">> \o ReprItems(x.v) \o <<"]">>
    ELSE PyNoneText

\* dicts: sequences of [k, v] in insertion order
DictHas(d, key) == \E n \in DOMAIN d : d[n].k = key
DictGet(d, key) == d[CHOOSE n \in DOMAIN d : d[n].k = key].v
DictKeys(d) == {d[n].k : n \in DOMAIN d}

\* d[key] = x
DictSet(d, key, x) ==
    IF DictHas(d, key)
    THEN [n \in DOMAIN d |-> IF d[n].k = key THEN [k |-> key, v |-> x] ELSE d[n]]
    ELSE Append(d, [k |-> key, v |-> x])

\* d.setdefault(key, []).append(x)
SetDefaultAppend(d, key, x) ==
    IF DictHas(d, key)
    THEN [n \in DOMAIN d |-> IF d[n].k = key THEN [k |-> key, v |-> Append(d[n].v, x)] ELSE d[n]]
    ELSE Append(d, [k |-> key, v |-> <<x>>])

\* code point order of the characters that occur in the data
AsciiOrder == <<" ", "\"", "'", "(", ")", ",", ";">> \o UpperLetters \o <<"[", "]">> \o LowerLetters

Code(c) == CHOOSE n \in DOMAIN AsciiOrder : AsciiOrder[n] = c

\* a < b on str
RECURSIVE StrLess(_, _)
StrLess(a, b) ==
    IF b = <<>> THEN FALSE
    ELSE IF a = <<>> THEN TRUE
    ELSE IF Head(a) = Head(b) THEN StrLess(Tail(a), Tail(b))
    ELSE Code(Head(a)) < Code(Head(b))

\* list(S) for a set of str: the elements in the order the set iterates, which
\* str hashing leaves open (any order, the same set may give another next run)
RECURSIVE ListOfSet(_)
ListOfSet(S) ==
    IF S = {} THEN {<<>>}
    ELSE UNION {{<<x>> \o l : l \in ListOfSet(S \ {x})} : x \in S}

\* the list without its k-th element
DropAt(l, k) == SubSeq(l, 1, k - 1) \o SubSeq(l, k + 1, Len(l))

\* sorted(l) for a list of str
RECURSIVE sorted(_)
sorted_asgiven(l) == l
sorted(l) ==
    IF l = <<>> THEN <<>>
    ELSE LET m == CHOOSE k \in DOMAIN l :
                     /\ \A j \in DOMAIN l : ~StrLess(l[j], l[k])
                     /\ \A j \in 1..(k - 1) : StrLess(l[k], l[j])
         IN <<l[m]>> \o sorted(DropAt(l, m))

\* s.split(",")
RECURSIVE SplitAtComma(_, _)
SplitAtComma(s, cur) ==
    IF s = <<>> THEN <<cur>>
    ELSE IF Head(s) = "," THEN <<cur>> \o SplitAtComma(Tail(s), <<>>)
    ELSE SplitAtComma(Tail(s), Append(cur, Head(s)))

split_comma(s) == SplitAtComma(s, <<>>)

-----------------------------------------------------------------------------
(* scripts/02_build_nested_data.py *)

name_fields ==
    <<"Name", "Agency Name", "Agency/Department Name", "Org Full Name", "Org Short Name", "Title">>

\* lines 71-76: the normalized value of the first name field that is a
\* non-blank str, or None when there is none (the agency is then not indexed)
RECURSIVE FirstNameKey(_, _, _)
FirstNameKey(fields, names, n) ==
    IF n > Len(names) THEN None
    ELSE LET name == Get(fields, names[n]) IN
         IF IsStr(name) /\ strip(name.v) # <<>>
         THEN Str(lower(strip(name.v)))
         ELSE FirstNameKey(fields, names, n + 1)

\* lines 62-76: the body of the loop, on idx = [by_id, by_name]
IndexAgency(idx, agency) ==
    LET normalized == FirstNameKey(agency.fields, name_fields, 1) IN
    [by_id |-> IF Truthy(agency.id) THEN DictSet(idx.by_id, agency.id.v, agency) ELSE idx.by_id,
     by_name |-> IF IsStr(normalized)
                 THEN SetDefaultAppend(idx.by_name, normalized.v, agency)
                 ELSE idx.by_name]

RECURSIVE IndexAgencies(_, _)
IndexAgencies(idx, as) ==
    IF as = <<>> THEN idx ELSE IndexAgencies(IndexAgency(idx, Head(as)), Tail(as))

build_agency_indices(as) == IndexAgencies([by_id |-> <<>>, by_name |-> <<>>], as)

\* ast.literal_eval on a text that starts with "[" and ends with "]".
\* Modelled for texts whose characters outside quoted strings are blanks,
\* commas and square brackets (anything else outside a string is a parse
\* failure here; in Python it is one too unless it spells a constant, a
\* string prefix or an operator), and whose strings have no escapes:
\*   ok     - the text is a literal (no exception)
\*   islist - the literal is a list (it is a tuple of lists otherwise)
\*   items  - the elements of the list: Str(s) for a string (adjacent string
\*            literals are concatenated), None for a nested list
LitState ==
    [lvl |-> 0, need |-> "open", q |-> "", cur |-> <<>>, items |-> <<>>,
     concat |-> FALSE, tuple |-> FALSE, ok |-> TRUE]

LitCloseString(st) ==
    IF st.lvl # 1 THEN st.items
    ELSE IF st.concat
    THEN [st.items EXCEPT ![Len(st.items)] = Str(@.v \o st.cur)]
    ELSE Append(st.items, Str(st.cur))

LitStep(st, ch) ==
    IF ~st.ok THEN st
    ELSE IF st.q # ""
    THEN IF ch = st.q
         THEN [st EXCEPT !.q = "", !.items = LitCloseString(st), !.cur = <<>>,
                         !.need = "after_str"]
         ELSE [st EXCEPT !.cur = Append(@, ch)]
    ELSE IF ch = " " THEN st
    ELSE IF ch \in QuoteChars /\ st.need \in {"open", "after_str"}
    THEN [st EXCEPT !.q = ch, !.concat = (st.need = "after_str")]
    ELSE IF ch = "[" /\ st.need = "open"
    THEN [st EXCEPT !.lvl = @ + 1,
                    !.items = IF st.lvl = 1 THEN Append(@, None) ELSE @]
    ELSE IF ch = "]" /\ st.lvl > 0
    THEN [st EXCEPT !.lvl = @ - 1, !.need = "after_list"]
    ELSE IF ch = "," /\ st.need \in {"after_str", "after_list"}
    THEN [st EXCEPT !.need = "open", !.tuple = @ \/ st.lvl = 0]
    ELSE [st EXCEPT !.ok = FALSE]

RECURSIVE LitFold(_, _)
LitFold(st, s) ==
    IF s = <<>> THEN st
    ELSE IF Len(s) = 1 THEN LitStep(st, s[1])
    ELSE LET half == Len(s) \div 2
             left == LitFold(st, SubSeq(s, 1, half))
         IN IF left.ok = left.ok THEN LitFold(left, SubSeq(s, half + 1, Len(s))) ELSE left

literal_eval(s) ==
    LET st == LitFold(LitState, s) IN
    IF st.ok /\ st.q = "" /\ st.lvl = 0 /\ st.need = "after_list"
    THEN [ok |-> TRUE, islist |-> ~st.tuple, items |-> st.items]
    ELSE [ok |-> FALSE, islist |-> FALSE, items |-> <<>>]

\* lines 111, 115, 119, 123: index the project under each key of a list
RECURSIVE IndexUnder(_, _, _)
IndexUnder_firstkeyonly(idx, keys, project) ==
    IF keys = <<>> THEN idx ELSE SetDefaultAppend(idx, strip(Head(keys)), project)
RECURSIVE IndexUnder_nostrip(_, _, _)
IndexUnder_nostrip(idx, keys, project) ==
    IF keys = <<>> THEN idx
    ELSE IndexUnder_nostrip(SetDefaultAppend(idx, Head(keys), project), Tail(keys), project)
IndexUnder(idx, keys, project) ==
    IF keys = <<>> THEN idx
    ELSE IndexUnder(SetDefaultAppend(idx, strip(Head(keys)), project), Tail(keys), project)

\* the str elements of a list, as texts
RECURSIVE StrItems(_)
StrItems(l) ==
    IF l = <<>> THEN <<>>
    ELSE (IF IsStr(Head(l)) THEN <<Head(l).v>> ELSE <<>>) \o StrItems(Tail(l))

\* lines 94-96
ProviderField(fields) ==
    PyOr(PyOr(Get(fields, "Provider Orgs Full Name"), Get(fields, "Provider Org")),
         Get(fields, "Organization"))

\* lines 92-123: the body of the loop
IndexProject_absentasnone(idx, project) ==
    SetDefaultAppend(idx, strip(PyStrOf(ProviderField(project.fields))), project)
IndexProject(idx, project) ==
    LET providers == ProviderField(project.fields) IN
    IF ~Truthy(providers) THEN idx
    ELSE IF IsStr(providers)
    THEN IF startswith(providers.v, "[") /\ endswith(providers.v, "]")
         THEN LET parsed == literal_eval(providers.v) IN
              IF parsed.ok
              THEN (IF parsed.islist THEN IndexUnder(idx, StrItems(parsed.items), project)
                    ELSE idx)
              ELSE IndexUnder(idx, split_respecting_parentheses(providers.v), project)
         ELSE IndexUnder(idx, split_respecting_parentheses(providers.v), project)
    ELSE IndexUnder(idx, StrItems(providers.v), project)

RECURSIVE IndexProjects(_, _)
IndexProjects(idx, ps) ==
    IF ps = <<>> THEN idx ELSE IndexProjects(IndexProject(idx, Head(ps)), Tail(ps))

build_project_index(ps) == IndexProjects(<<>>, ps)

\* lines 144-146
DonorField(org_fields) ==
    PyOr(PyOr(Get(org_fields, "Org Donor Agencies"), Get(org_fields, "Org Donor Agencies (Linked)")),
         Get(org_fields, "Org Donor Agencies (from Agency)"))

\* lines 156-158
RECURSIVE TokensOfItems(_)
TokensOfItems(l) ==
    IF l = <<>> THEN <<>>
    ELSE (IF IsStr(Head(l)) /\ strip(Head(l).v) # <<>>
          THEN split_respecting_parentheses(Head(l).v) ELSE <<>>) \o TokensOfItems(Tail(l))

\* lines 152-158
DonorTokens(donor_field) ==
    IF IsStr(donor_field) /\ strip(donor_field.v) # <<>>
    THEN split_respecting_parentheses(donor_field.v)
    ELSE IF IsList(donor_field) THEN TokensOfItems(donor_field.v)
    ELSE <<>>

\* lines 161-164
RECURSIVE MatchTokens(_, _)
MatchTokens(toks, a_by_name) ==
    IF toks = <<>> THEN <<>>
    ELSE LET normalized == lower(strip(Head(toks))) IN
         (IF DictHas(a_by_name, normalized) THEN DictGet(a_by_name, normalized)
          ELSE <<>>) \o MatchTokens(Tail(toks), a_by_name)

\* lines 128-166
match_agencies(org_fields, a_by_name) ==
    LET donor_field == DonorField(org_fields) IN
    IF ~Truthy(donor_field) THEN <<>>
    ELSE MatchTokens(DonorTokens(donor_field), a_by_name)

\* lines 194-199: the projects of the first key equal to the name up to case
FirstKeyIgnoringCase(org_name, p_by_org) ==
    LET hits == {n \in DOMAIN p_by_org : lower(p_by_org[n].k) = lower(org_name)} IN
    IF hits = {} THEN <<>>
    ELSE p_by_org[CHOOSE n \in hits : \A m \in hits : n <= m].v

\* lines 184-199: the concatenation of the three lookups
MatchedProjects(org_name, org_id, p_by_org) ==
    (IF org_name # <<>> /\ DictHas(p_by_org, org_name)
     THEN DictGet(p_by_org, org_name) ELSE <<>>)
    \o (IF org_id # <<>> /\ DictHas(p_by_org, org_id)
        THEN DictGet(p_by_org, org_id) ELSE <<>>)
    \o (IF org_name # <<>> THEN FirstKeyIgnoringCase(org_name, p_by_org) ELSE <<>>)

\* lines 201-208: keep the first record of every id
RECURSIVE UniqueById(_, _)
UniqueById_keepall(matched, seen_ids) == matched
UniqueById(matched, seen_ids) ==
    IF matched = <<>> THEN <<>>
    ELSE IF Head(matched).id \in seen_ids THEN UniqueById(Tail(matched), seen_ids)
    ELSE <<Head(matched)>> \o UniqueById(Tail(matched), seen_ids \cup {Head(matched).id})

\* lines 169-210
match_projects(org_name, org_id, p_by_org) ==
    UniqueById(MatchedProjects(org_name, org_id, p_by_org), {})

\* lines 228-233: the countries one agency adds
RECURSIVE CountriesOfItems(_)
CountriesOfItems(l) ==
    IF l = <<>> THEN {}
    ELSE (IF IsStr(Head(l)) /\ strip(Head(l).v) # <<>> THEN {strip(Head(l).v)} ELSE {})
         \cup CountriesOfItems(Tail(l))

CountriesOfAgency_nostrip(agency) ==
    LET country_data == Get(agency.fields, "Country Name") IN
    IF IsList(country_data) THEN {country_data.v[k].v : k \in DOMAIN country_data.v}
    ELSE IF IsStr(country_data) THEN {country_data.v}
    ELSE {}
CountriesOfAgency(agency) ==
    LET country_data == Get(agency.fields, "Country Name") IN
    IF IsList(country_data) THEN CountriesOfItems(country_data.v)
    ELSE IF IsStr(country_data) /\ strip(country_data.v) # <<>> THEN {strip(country_data.v)}
    ELSE {}

\* lines 213-235
RECURSIVE extract_donor_countries(_)
extract_donor_countries(as) ==
    IF as = <<>> THEN {}
    ELSE CountriesOfAgency(Head(as)) \cup extract_donor_countries(Tail(as))

\* lines 262-264: ids given as a list
RECURSIVE AgenciesOfIdList(_, _)
AgenciesOfIdList(l, a_by_id) ==
    IF l = <<>> THEN <<>>
    ELSE (IF IsStr(Head(l)) /\ DictHas(a_by_id, Head(l).v)
          THEN <<DictGet(a_by_id, Head(l).v)>> ELSE <<>>)
         \o AgenciesOfIdList(Tail(l), a_by_id)

\* lines 267-270: ids given as a comma-separated str
RECURSIVE AgenciesOfIdTexts(_, _)
AgenciesOfIdTexts_nostrip(parts, a_by_id) == AgenciesOfIdList([k \in DOMAIN parts |-> Str(parts[k])], a_by_id)
AgenciesOfIdTexts(parts, a_by_id) ==
    IF parts = <<>> THEN <<>>
    ELSE (IF DictHas(a_by_id, strip(Head(parts)))
          THEN <<DictGet(a_by_id, strip(Head(parts)))>> ELSE <<>>)
         \o AgenciesOfIdTexts(Tail(parts), a_by_id)

\* lines 258-270: project_agencies of one project
ProjectAgencies_absentasall(project, a_by_id) ==
    LET donor_agency_ids == GetOr(project.fields, "Project Donor Agencies",
                                  List([k \in DOMAIN a_by_id |-> Str(a_by_id[k].k)])) IN
    IF IsList(donor_agency_ids)
    THEN AgenciesOfIdList(donor_agency_ids.v, a_by_id)
    ELSE IF IsStr(donor_agency_ids)
    THEN AgenciesOfIdTexts(split_comma(donor_agency_ids.v), a_by_id)
    ELSE <<>>
ProjectAgencies(project, a_by_id) ==
    LET donor_agency_ids == GetOr(project.fields, "Project Donor Agencies", List(<<>>)) IN
    IF IsList(donor_agency_ids)
    THEN AgenciesOfIdList(donor_agency_ids.v, a_by_id)
    ELSE IF IsStr(donor_agency_ids)
    THEN AgenciesOfIdTexts(split_comma(donor_agency_ids.v), a_by_id)
    ELSE <<>>

\* line 272: the record on which the key "agencies" is set
WithAgencies(rec, project_agencies) ==
    [id |-> rec.id, fields |-> rec.fields, agencies |-> project_agencies]

\* lines 254-273: the copy of one project with its agencies
NestProject(project, a_by_id) ==
    WithAgencies(project, ProjectAgencies(project, a_by_id))

\* lines 254 and 272: the record of the input table after the iteration; the
\* key is set on project_copy, a dict of its own, and the record keeps its keys
ProjectAfterNest_nocopy(project, a_by_id) ==
    WithAgencies(project, ProjectAgencies(project, a_by_id))
ProjectAfterNest(project, a_by_id) ==
    project

\* lines 238-275
nest_project_agencies(ps, a_by_id) ==
    [n \in DOMAIN ps |-> NestProject(ps[n], a_by_id)]

\* lines 303-306
OrgName(org) ==
    PyOr(PyOr(PyOr(Get(org.fields, "Org Full Name"), Get(org.fields, "Org Short Name")),
              Get(org.fields, "Organization")),
         org.id)

\* lines 301-326: the entry built for one organization, listed being the list
\* that list(donor_countries) returns
NestedEntry(org, a_by_id, a_by_name, p_by_org, listed) ==
    LET org_name == OrgName(org)
        matched_agencies == match_agencies(org.fields, a_by_name)
        matched_projects == match_projects(PyStrOf(PyOr(org_name, Str(<<>>))),
                                           PyStrOf(PyOr(org.id, Str(<<>>))),
                                           p_by_org)
    IN [id |-> org.id,
        name |-> org_name,
        fields |-> org.fields,
        agencies |-> matched_agencies,
        projects |-> nest_project_agencies(matched_projects, a_by_id),
        donor_countries |-> sorted(listed)]

\* line 324: the entries that list(donor_countries) allows
NestedEntries(org, a_by_id, a_by_name, p_by_org) ==
    {NestedEntry(org, a_by_id, a_by_name, p_by_org, listed) :
        listed \in ListOfSet(extract_donor_countries(match_agencies(org.fields, a_by_name)))}

\* lines 312-316: the project table after the iteration for one organization,
\* whose matched projects have been through nest_project_agencies
ProjectsAfterNest(ps, org, a_by_id, p_by_org) ==
    LET matched_projects == match_projects(PyStrOf(PyOr(OrgName(org), Str(<<>>))),
                                           PyStrOf(PyOr(org.id, Str(<<>>))),
                                           p_by_org)
    IN [n \in DOMAIN ps |->
            IF \E k \in DOMAIN matched_projects : matched_projects[k] = ps[n]
            THEN ProjectAfterNest(ps[n], a_by_id)
            ELSE ps[n]]

\* lines 300-328: the list nested after one iteration of the loop
NestedAfter_sharedmatched(sofar, org, a_by_id, a_by_name, p_by_org) ==
    {Append(sofar, [entry EXCEPT !.agencies =
                        (IF sofar = <<>> THEN <<>> ELSE sofar[Len(sofar)].agencies) \o @]) :
        entry \in NestedEntries(org, a_by_id, a_by_name, p_by_org)}
NestedAfter(sofar, org, a_by_id, a_by_name, p_by_org) ==
    {Append(sofar, entry) : entry \in NestedEntries(org, a_by_id, a_by_name, p_by_org)}

\* lines 297-328: the lists the loop can end with, from the list sofar
RECURSIVE BuildFrom(_, _, _, _, _)
BuildFrom(sofar, orgs, a_by_id, a_by_name, p_by_org) ==
    IF orgs = <<>> THEN {sofar}
    ELSE UNION {BuildFrom(next, Tail(orgs), a_by_id, a_by_name, p_by_org) :
                    next \in NestedAfter(sofar, Head(orgs), a_by_id, a_by_name, p_by_org)}

\* lines 297-337: the lists main can write once the indices are built
MainLoop(orgs, idx, p_by_org) ==
    BuildFrom(<<>>, orgs, idx.by_id, idx.by_name, p_by_org)

\* lines 278-337: the lists a run of main can write for the three tables
main(orgs, as, ps) ==
    MainLoop(orgs, build_agency_indices(as), build_project_index(ps))

-----------------------------------------------------------------------------
(* scripts/nesting.py: split_respecting_parentheses and the matching functions *)

\* lines 39-50: one iteration of the for loop on the loop state
\* st = [tokens, current, depth] and character char
NestingTokStep(st, char) ==
    IF char = "("
    THEN [st EXCEPT !.depth = @ + 1, !.current = Append(@, char)]
    ELSE IF char = ")"
    THEN [st EXCEPT !.depth = @ - 1, !.current = Append(@, char)]
    ELSE IF char \in SplitChars /\ st.depth = 0
    THEN [st EXCEPT !.tokens = AppendToken(@, st.current), !.current = <<>>]
    ELSE [st EXCEPT !.current = Append(@, char)]

\* lines 38-50: the for loop, folded by halves and read left to right
RECURSIVE NestingTokFold(_, _)
NestingTokFold(st, s) ==
    IF s = <<>> THEN st
    ELSE IF Len(s) = 1 THEN NestingTokStep(st, s[1])
    ELSE LET half == Len(s) \div 2
             left == NestingTokFold(st, SubSeq(s, 1, half))
         IN IF left.depth = left.depth
            THEN NestingTokFold(left, SubSeq(s, half + 1, Len(s))) ELSE left

\* lines 30-56
nesting_split_respecting_parentheses(s) ==
    IF s = <<>> THEN <<>>
    ELSE LET st == NestingTokFold([tokens |-> <<>>, current |-> <<>>, depth |-> 0], s)
         IN AppendToken(st.tokens, st.current)

\* lines 63-68
agency_field_candidates ==
    <<"Org Donor Agencies", "Org Donor Agencies (Linked)", "Donor Agencies",
      "Project Donor Agencies">>

\* lines 70-74: the value of the first candidate that is a key of the fields
RECURSIVE FirstPresent(_, _, _)
FirstPresent(org_fields, names, n) ==
    IF n > Len(names) THEN None
    ELSE IF names[n] \in DOMAIN org_fields THEN org_fields[names[n]]
    ELSE FirstPresent(org_fields, names, n + 1)

\* lines 84-86
RECURSIVE NestingTokensOfItems(_)
NestingTokensOfItems(l) ==
    IF l = <<>> THEN <<>>
    ELSE (IF IsStr(Head(l)) /\ strip(Head(l).v) # <<>>
          THEN nesting_split_respecting_parentheses(Head(l).v) ELSE <<>>)
         \o NestingTokensOfItems(Tail(l))

\* lines 58-94
match_agencies_to_organization(org_fields, a_by_name) ==
    LET donor_agencies_raw == FirstPresent(org_fields, agency_field_candidates, 1) IN
    IF ~Truthy(donor_agencies_raw) THEN <<>>
    ELSE MatchTokens(IF IsStr(donor_agencies_raw) /\ strip(donor_agencies_raw.v) # <<>>
                     THEN nesting_split_respecting_parentheses(donor_agencies_raw.v)
                     ELSE IF IsList(donor_agencies_raw)
                     THEN NestingTokensOfItems(donor_agencies_raw.v)
                     ELSE <<>>,
                     a_by_name)

\* lines 96-125: the statements of match_projects of 02_build_nested_data.py,
\* under other local names
match_projects_to_organization(org_name, org_id, p_by_org) ==
    UniqueById(MatchedProjects(org_name, org_id, p_by_org), {})

-----------------------------------------------------------------------------
(* scripts/nesting.py: the agency indices of main *)

nesting_name_keys ==
    <<"Name", "Agency Name", "Org Full Name", "Org Short Name", "Provider Orgs Full Name", "Title">>

nesting_owner_keys == <<"Organization", "Org Full Name", "Provided By", "Provider Orgs Full Name">>

\* lines 181-185 and 195-199: the stripped value of the first key that holds a
\* non-blank str, or None
RECURSIVE FirstStripped(_, _, _)
FirstStripped(fields, keys, n) ==
    IF n > Len(keys) THEN None
    ELSE LET val == Get(fields, keys[n]) IN
         IF IsStr(val) /\ strip(val.v) # <<>> THEN Str(strip(val.v))
         ELSE FirstStripped(fields, keys, n + 1)

\* lines 180-191: the key of the agency in agencies_by_org
NestingOwnerKey(a) ==
    LET first == FirstStripped(a.fields, nesting_owner_keys, 1)
        owner == IF Truthy(first) THEN first
                 ELSE PyOr(Get(a.fields, "Org Full Name"), Get(a.fields, "Organization Name"))
    IN IF Truthy(owner) THEN PyStrOf(owner) ELSE PyStrOf(a.id)

\* lines 194-203: the key of the agency in agencies_by_name
NestingNameKey(a) ==
    LET first == FirstStripped(a.fields, nesting_name_keys, 1)
        found_name == IF Truthy(first) THEN first ELSE a.id
    IN lower(strip(PyStrOf(found_name)))

\* lines 177-204: the body of the loop, on idx = [by_org, by_name]
NestingIndexAgency(idx, a) ==
    [by_org |-> SetDefaultAppend(idx.by_org, NestingOwnerKey(a), a),
     by_name |-> SetDefaultAppend(idx.by_name, NestingNameKey(a), a)]

RECURSIVE NestingIndexAgencies(_, _)
NestingIndexAgencies(idx, as) ==
    IF as = <<>> THEN idx
    ELSE NestingIndexAgencies(NestingIndexAgency(idx, Head(as)), Tail(as))

nesting_agency_indices(as) == NestingIndexAgencies([by_org |-> <<>>, by_name |-> <<>>], as)

-----------------------------------------------------------------------------
(* scripts/nesting.py: the project index and the organization loop of main *)

\* lines 208-239: the body of the loop; a provider that is neither a non-blank
\* str nor a list puts the project under str(p.get('id'))
NestingIndexProject(idx, p) ==
    LET prov == ProviderField(p.fields) IN
    IF IsStr(prov) /\ strip(prov.v) # <<>>
    THEN IF startswith(prov.v, "[") /\ endswith(prov.v, "]")
         THEN LET parsed == literal_eval(prov.v) IN
              IF parsed.ok
              THEN (IF parsed.islist THEN IndexUnder(idx, StrItems(parsed.items), p)
                    ELSE idx)
              ELSE IndexUnder(idx, nesting_split_respecting_parentheses(prov.v), p)
         ELSE IndexUnder(idx, nesting_split_respecting_parentheses(prov.v), p)
    ELSE IF IsList(prov) THEN IndexUnder(idx, StrItems(prov.v), p)
    ELSE SetDefaultAppend(idx, PyStrOf(p.id), p)

\* lines 207-239
RECURSIVE NestingIndexProjects(_, _)
NestingIndexProjects(idx, ps) ==
    IF ps = <<>> THEN idx
    ELSE NestingIndexProjects(NestingIndexProject(idx, Head(ps)), Tail(ps))

\* lines 242-244: agency.get('id', '') is the key, the last agency of a key stays
RECURSIVE NestingAgenciesById(_, _)
NestingAgenciesById(idx, as) ==
    IF as = <<>> THEN idx
    ELSE NestingAgenciesById(
            DictSet(idx, IF Head(as).id = None THEN <<>> ELSE Head(as).id.v, Head(as)),
            Tail(as))

\* lines 269 and 288
OrgIdStr(o) == IF Truthy(o.id) THEN PyStrOf(o.id) ELSE <<>>

\* lines 254-265: the agencies attached through the donor-agency field; the
\* items of a list are looked up whole
AttachedByTokens(donor_agencies_raw, a_by_name) ==
    IF IsStr(donor_agencies_raw) /\ strip(donor_agencies_raw.v) # <<>>
    THEN MatchTokens(nesting_split_respecting_parentheses(donor_agencies_raw.v), a_by_name)
    ELSE IF IsList(donor_agencies_raw) THEN MatchTokens(StrItems(donor_agencies_raw.v), a_by_name)
    ELSE <<>>

\* lines 270 and 289: index.get(org_name or '') or index.get(org_id_str) or []
ByNameOrId(index, org_name, org_id_str) ==
    LET name == PyOr(org_name, Str(<<>>)).v IN
    IF DictHas(index, name) /\ DictGet(index, name) # <<>> THEN DictGet(index, name)
    ELSE IF DictHas(index, org_id_str) /\ DictGet(index, org_id_str) # <<>>
    THEN DictGet(index, org_id_str)
    ELSE <<>>

\* lines 252-270
AttachedAgencies_nofallback(o, a_by_org, a_by_name) ==
    AttachedByTokens(DonorField(o.fields), a_by_name)
AttachedAgencies(o, a_by_org, a_by_name) ==
    LET attached_agencies == AttachedByTokens(DonorField(o.fields), a_by_name) IN
    IF attached_agencies = <<>> THEN ByNameOrId(a_by_org, OrgName(o), OrgIdStr(o))
    ELSE attached_agencies

\* lines 247-324: the entry of one organization, listed being the list that
\* list(donor_countries) returns
NestingEntry(o, a_by_org, a_by_name, a_by_id, p_by_org, listed) ==
    LET projs == ByNameOrId(p_by_org, OrgName(o), OrgIdStr(o)) IN
    [id |-> o.id,
     name |-> OrgName(o),
     fields |-> o.fields,
     agencies |-> AttachedAgencies(o, a_by_org, a_by_name),
     projects |-> [n \in DOMAIN projs |-> NestProject(projs[n], a_by_id)],
     donor_countries |-> sorted(listed)]

\* lines 247-326: the list nested after one iteration of the loop
NestingAfter(sofar, o, a_by_org, a_by_name, a_by_id, p_by_org) ==
    {Append(sofar, NestingEntry(o, a_by_org, a_by_name, a_by_id, p_by_org, listed)) :
        listed \in ListOfSet(extract_donor_countries(AttachedAgencies(o, a_by_org, a_by_name)))}

-----------------------------------------------------------------------------
(* detailed_filter_analysis.py (and the same functions of find_excluded_projects.py) *)

\* 'Germany', the country the scripts filter by
Germany == <<"G", "e", "r", "m", "a", "n", "y">>

\* "Federal Foreign Office (FFO)"
FFO ==
    <<"F", "e", "d", "e", "r", "a", "l", " ", "F", "o", "r", "e", "i", "g", "n", " ",
      "O", "f", "f", "i", "c", "e", " ", "(", "F", "F", "O", ")">>

\* "Unspecified Agency"
UnspecifiedAgency ==
    <<"U", "n", "s", "p", "e", "c", "i", "f", "i", "e", "d", " ", "A", "g", "e", "n",
      "c", "y">>

\* "German Corporation for International Cooperation (GIZ)"
GIZ ==
    <<"G", "e", "r", "m", "a", "n", " ", "C", "o", "r", "p", "o", "r", "a", "t", "i",
      "o", "n", " ", "f", "o", "r", " ", "I", "n", "t", "e", "r", "n", "a", "t", "i",
      "o", "n", "a", "l", " ", "C", "o", "o", "p", "e", "r", "a", "t", "i", "o", "n",
      " ", "(", "G", "I", "Z", ")">>

\* "Federal Ministry for Economic Cooperation and Development (BMZ)"
BMZ ==
    <<"F", "e", "d", "e", "r", "a", "l", " ", "M", "i", "n", "i", "s", "t", "r", "y",
      " ", "f", "o", "r", " ", "E", "c", "o", "n", "o", "m", "i", "c", " ", "C", "o",
      "o", "p", "e", "r", "a", "t", "i", "o", "n", " ", "a", "n", "d", " ", "D", "e",
      "v", "e", "l", "o", "p", "m", "e", "n", "t", " ", "(", "B", "M", "Z", ")">>

\* "KfW Development Bank (KfW)"
KfW ==
    <<"K", "f", "W", " ", "D", "e", "v", "e", "l", "o", "p", "m", "e", "n", "t", " ",
      "B", "a", "n", "k", " ", "(", "K", "f", "W", ")">>

\* "Federal Agency for Technical Relief (THW)"
THW ==
    <<"F", "e", "d", "e", "r", "a", "l", " ", "A", "g", "e", "n", "c", "y", " ", "f",
      "o", "r", " ", "T", "e", "c", "h", "n", "i", "c", "a", "l", " ", "R", "e", "l",
      "i", "e", "f", " ", "(", "T", "H", "W", ")">>

\* "Federal Agency for Cartography and Geodesy (BKG)"
BKG ==
    <<"F", "e", "d", "e", "r", "a", "l", " ", "A", "g", "e", "n", "c", "y", " ", "f",
      "o", "r", " ", "C", "a", "r", "t", "o", "g", "r", "a", "p", "h", "y", " ", "a",
      "n", "d", " ", "G", "e", "o", "d", "e", "s", "y", " ", "(", "B", "K", "G", ")">>

\* lines 9-17
GERMANY_AGENCIES == <<FFO, UnspecifiedAgency, GIZ, BMZ, KfW, THW, BKG>>

\* lines 27-30 and 39-42: donors.add(country) for every agency with a truthy
\* country.  A list is unhashable: set.add raises TypeError.
RECURSIVE DonorsOfAgencies(_)
DonorsOfAgencies(as) ==
    IF as = <<>> THEN [raised |-> FALSE, donors |-> {}]
    ELSE LET country == Get(Head(as).fields, "Country Name")
             rest == DonorsOfAgencies(Tail(as))
         IN IF ~Truthy(country) THEN rest
            ELSE IF IsList(country) THEN [raised |-> TRUE, donors |-> {}]
            ELSE IF rest.raised THEN rest
            ELSE [raised |-> FALSE, donors |-> {country.v} \cup rest.donors]

\* lines 23-31
get_org_level_donors(org) == DonorsOfAgencies(org.agencies)

\* lines 33-43
RECURSIVE DonorsOfProjects(_)
DonorsOfProjects(ps) ==
    IF ps = <<>> THEN [raised |-> FALSE, donors |-> {}]
    ELSE LET first == DonorsOfAgencies(Head(ps).agencies)
             rest == DonorsOfProjects(Tail(ps))
         IN IF first.raised \/ rest.raised THEN [raised |-> TRUE, donors |-> {}]
            ELSE [raised |-> FALSE, donors |-> first.donors \cup rest.donors]

get_project_level_donors(org) == DonorsOfProjects(org.projects)

\* lines 45-47
get_all_donors(org) ==
    LET o == get_org_level_donors(org)
        p == get_project_level_donors(org)
    IN IF o.raised \/ p.raised THEN [raised |-> TRUE, donors |-> {}]
       ELSE [raised |-> FALSE, donors |-> o.donors \cup p.donors]

\* lines 53-57 and 64-68: the names of the agencies whose country is 'Germany'
RECURSIVE GermanyAgencyNames(_)
GermanyAgencyNames(as) ==
    IF as = <<>> THEN <<>>
    ELSE LET agency_name == GetOr(Head(as).fields, "Agency/Department Name", Str(<<>>)) IN
         (IF Get(Head(as).fields, "Country Name") = Str(Germany) /\ Truthy(agency_name)
          THEN <<agency_name>> ELSE <<>>) \o GermanyAgencyNames(Tail(as))

\* lines 49-58
get_org_level_germany_agencies(org) == GermanyAgencyNames(org.agencies)

\* lines 60-69
get_project_level_germany_agencies(project) == GermanyAgencyNames(project.agencies)

\* any(agency in selected_agencies for agency in names)
AnySelected(names, selected) ==
    \E n \in DOMAIN names : IsStr(names[n]) /\ \E m \in DOMAIN selected : selected[m] = names[n].v

\* lines 71-74
org_has_selected_agency_emptyselectsall(org, selected) ==
    /\ get_org_level_germany_agencies(org) # <<>>
    /\ (selected = <<>> \/ AnySelected(get_org_level_germany_agencies(org), selected))
org_has_selected_agency(org, selected) ==
    AnySelected(get_org_level_germany_agencies(org), selected)

\* lines 76-89
project_matches_agency_filter_singleselection(project, selected, org_has_agency) ==
    /\ Len(selected) = 1
    /\ (org_has_agency \/ AnySelected(get_project_level_germany_agencies(project), selected))
project_matches_agency_filter(project, selected, org_has_agency) ==
    IF org_has_agency THEN TRUE
    ELSE AnySelected(get_project_level_germany_agencies(project), selected)

\* lines 129-132
RECURSIVE VisibleProjects(_, _, _)
VisibleProjects(ps, selected, org_has_agency) ==
    IF ps = <<>> THEN <<>>
    ELSE (IF project_matches_agency_filter(Head(ps), selected, org_has_agency)
          THEN <<Head(ps)>> ELSE <<>>) \o VisibleProjects(Tail(ps), selected, org_has_agency)

-----------------------------------------------------------------------------
(* One call of split_respecting_parentheses, a character at a time *)

TokAlphabet == {"a", " ", ",", ";", "(", ")", "'", "\""}

RECURSIVE TextsUpTo(_)
TextsUpTo(n) ==
    IF n = 0 THEN {<<>>}
    ELSE LET shorter == TextsUpTo(n - 1)
         IN shorter \cup {Append(s, c) : s \in {x \in shorter : Len(x) = n - 1}, c \in TokAlphabet}

ExSplitParen == <<"A", " ", "(", "B", ",", " ", "C", ")", ",", " ", "D">>
ExSplitQuote == <<"'", "A", ",", " ", "B", "'", ",", " ", "C">>
ExStrayParen == <<"A", ")", ")">>

TokExamples == {ExSplitParen, ExSplitQuote, ExStrayParen}

TokInputs == TextsUpTo(MaxLen) \cup TokExamples

pipevars == <<inputvars, buildvars, rerunvars, nestingvars, filtervars, i, pc>>

\* no script runs
PipelineIdle ==
    /\ organizations = <<>>
    /\ agencies = <<>>
    /\ projects = <<>>
    /\ agencies_by_id = <<>>
    /\ agencies_by_name = <<>>
    /\ projects_by_org = <<>>
    /\ nested = <<>>
    /\ rerun_orgs = <<>>
    /\ rerun = <<>>
    /\ n_agencies_by_org = <<>>
    /\ n_agencies_by_name = <<>>
    /\ n_projects_by_org = <<>>
    /\ n_agencies_by_id = <<>>
    /\ n_nested = <<>>
    /\ selected_agencies = <<>>
    /\ germany_only_orgs = <<>>
    /\ germany_only_projects = 0
    /\ germany_with_agencies_orgs = <<>>
    /\ germany_with_agencies_projects = 0
    /\ excluded_orgs = <<>>
    /\ visible_projects = <<>>
    /\ should_show = FALSE
    /\ i = 1
    /\ pc = "idle"

\* 01_fetch_airtable.py does not run
FetchIdle ==
    /\ f_config = <<>>
    /\ f_server = <<>>
    /\ f_table = ""
    /\ f_all_records = <<>>
    /\ f_offset = None
    /\ f_sent = <<>>
    /\ f_got = <<>>
    /\ f_returned = <<>>
    /\ f_saved = {}
    /\ f_errors = <<>>
    /\ f_launched = FALSE
    /\ f_status = -1
    /\ f_pc = "idle"

TokLoopState ==
    [tokens |-> tokens, current |-> current, depth |-> depth,
     in_quotes |-> in_quotes, quote_char |-> quote_char]

InitTok ==
    /\ text \in TokInputs
    /\ tpos = 1
    /\ tokens = <<>>
    /\ current = <<>>
    /\ depth = 0
    /\ in_quotes = FALSE
    /\ quote_char = ""
    /\ cleaned = <<>>
    /\ tpc = "call"
    /\ PipelineIdle
    /\ FetchIdle

\* lines 187-188: if not text: return []
TokReturnEmpty ==
    /\ tpc = "call"
    /\ text = <<>>
    /\ cleaned' = <<>>
    /\ tpc' = "done"
    /\ UNCHANGED <<text, tpos, tokens, current, depth, in_quotes, quote_char>>
    /\ UNCHANGED <<pipevars, fetchvars>>

\* lines 190-194: the locals are initialised
TokEnter ==
    /\ tpc = "call"
    /\ text # <<>>
    /\ tokens' = TokInitState.tokens
    /\ current' = TokInitState.current
    /\ depth' = TokInitState.depth
    /\ in_quotes' = TokInitState.in_quotes
    /\ quote_char' = TokInitState.quote_char
    /\ tpos' = 1
    /\ tpc' = "loop"
    /\ UNCHANGED <<text, cleaned>>
    /\ UNCHANGED <<pipevars, fetchvars>>

\* lines 196-226: one iteration of the for loop
TokChar ==
    /\ tpc = "loop"
    /\ tpos <= Len(text)
    /\ LET st == TokStep(TokLoopState, text[tpos]) IN
        /\ tokens' = st.tokens
        /\ current' = st.current
        /\ depth' = st.depth
        /\ in_quotes' = st.in_quotes
        /\ quote_char' = st.quote_char
    /\ tpos' = tpos + 1
    /\ UNCHANGED <<text, cleaned, tpc>>
    /\ UNCHANGED <<pipevars, fetchvars>>

\* lines 228-240: the last token, the quote cleaning and the return
TokReturn ==
    /\ tpc = "loop"
    /\ tpos > Len(text)
    /\ tokens' = AppendToken(tokens, current)
    /\ cleaned' = CleanTokens(AppendToken(tokens, current))
    /\ tpc' = "done"
    /\ UNCHANGED <<text, tpos, current, depth, in_quotes, quote_char>>
    /\ UNCHANGED <<pipevars, fetchvars>>

NextTok == TokReturnEmpty \/ TokEnter \/ TokChar \/ TokReturn

SpecTok == InitTok /\ [][NextTok]_vars

-----------------------------------------------------------------------------
(* The input tables *)

UnlistedAgency == <<"U", "n", "l", "i", "s", "t", "e", "d", " ", "A", "g", "e", "n", "c", "y">>
France == <<"F", "r", "a", "n", "c", "e">>
AFD == <<"A", "F", "D">>
NameX == <<"X">>
NameY == <<"Y">>

Digits == <<"1", "2", "3", "4", "5", "6", "7", "8", "9">>

\* the record identifiers, by position in the table
AgencyId(n) == <<"a", "g", Digits[n]>>
OrgId(n) == <<"o", Digits[n]>>
ProjectId(n) == <<"p", Digits[n]>>

\* the records of a table: the n-th carries the n-th identifier of ids
Records(fieldsSeq, ids) ==
    [n \in DOMAIN fieldsSeq |-> [id |-> Str(ids[n]), fields |-> fieldsSeq[n]]]

RECURSIVE SeqsUpTo(_, _)
SeqsUpTo(S, n) ==
    IF n = 0 THEN {<<>>}
    ELSE LET shorter == SeqsUpTo(S, n - 1)
         IN shorter \cup {Append(q, x) : q \in {y \in shorter : Len(y) = n - 1}, x \in S}

\* agency fields
AgFFO == ("Agency/Department Name" :> Str(FFO)) @@ ("Country Name" :> Str(Germany))
AgUnlisted == ("Agency/Department Name" :> Str(UnlistedAgency)) @@ ("Country Name" :> Str(Germany))
AgFFOListCountry ==
    ("Agency/Department Name" :> Str(FFO)) @@ ("Country Name" :> List(<<Str(Germany)>>))
AgPaddedCountry == ("Name" :> Str(AFD)) @@ ("Country Name" :> Str(<<" ">> \o Germany))
AgFrance == ("Title" :> Str(<<" ">> \o lower(AFD) \o <<" ">>)) @@ ("Country Name" :> Str(France))
AgNoName == ("Country Name" :> Str(Germany))
AgBlankName == ("Name" :> Str(<<" ">>)) @@ ("Agency/Department Name" :> Str(UnlistedAgency))

AgencyPool ==
    {AgFFO, AgUnlisted, AgFFOListCountry, AgPaddedCountry, AgFrance, AgNoName, AgBlankName}

BaseAgencies == <<AgFFO, AgUnlisted>>

\* agencies that name their owner: the organization X, the organization o1
AgOwnedByX ==
    ("Organization" :> Str(NameX)) @@ ("Agency/Department Name" :> Str(FFO))
    @@ ("Country Name" :> Str(Germany))
AgOwnedById ==
    ("Organization" :> Str(OrgId(1))) @@ ("Agency/Department Name" :> Str(UnlistedAgency))
    @@ ("Country Name" :> Str(France))

OwnedAgencyPool == {AgOwnedByX, AgOwnedById, AgPaddedCountry}

\* the donor-agency fields of an organization
DonorNone == NoFields
DonorFFO == ("Org Donor Agencies" :> Str(FFO))
DonorFFOTwice == ("Org Donor Agencies" :> Str(FFO \o <<",", " ">> \o FFO))
DonorMixedCase ==
    ("Org Donor Agencies" :>
        Str(lower(FFO) \o <<";", " ">> \o AFD \o <<",", " ">> \o UnlistedAgency))
DonorList == ("Org Donor Agencies" :> List(<<Str(FFO), Str(lower(AFD))>>))
DonorSecondAlias ==
    ("Org Donor Agencies" :> Str(<<>>)) @@ ("Org Donor Agencies (Linked)" :> Str(UnlistedAgency))

DonorChoices == {DonorNone, DonorFFO, DonorFFOTwice, DonorMixedCase, DonorList, DonorSecondAlias}

\* the name fields of an organization
OrgNamedX == ("Org Full Name" :> Str(NameX))
OrgNamedY == ("Org Short Name" :> Str(NameY))
OrgUnnamed == NoFields

OrgPool ==
    {name @@ donor : name \in {OrgNamedX, OrgNamedY, OrgUnnamed},
                     donor \in {DonorNone, DonorFFO, DonorMixedCase}}

\* the provider fields of a project
ProviderNone == NoFields
ProviderX == ("Provider Orgs Full Name" :> Str(NameX))
ProviderLowerX == ("Provider Orgs Full Name" :> Str(lower(NameX)))
ProviderRepeated ==
    ("Provider Orgs Full Name" :> Str(NameX \o <<",", " ">> \o NameX \o <<";">> \o lower(NameX)))
ProviderListNameAndId == ("Provider Orgs Full Name" :> List(<<Str(NameX), Str(<<" ">> \o OrgId(1))>>))
ProviderSerialized ==
    ("Provider Orgs Full Name" :> Str(<<"[", "\"", "X", "\"", ",", "\"", "Y", "\"", "]">>))
ProviderMalformed == ("Provider Orgs Full Name" :> Str(<<"[", "X", ",", " ", "Y", "]">>))
ProviderY == ("Provider Org" :> Str(NameY))

\* one project of the providers X and Y, in the three shapes of the field: the
\* serialized list (ProviderSerialized), the list and the delimited string
ProviderListXY == ("Provider Orgs Full Name" :> List(<<Str(NameX), Str(NameY)>>))
ProviderListPaddedXY ==
    ("Provider Orgs Full Name" :> List(<<Str(<<" ">> \o NameX), Str(NameY \o <<" ">>)>>))
ProviderDelimitedXY == ("Provider Orgs Full Name" :> Str(NameX \o <<",", " ">> \o NameY))

ProviderShapesXY ==
    {ProviderSerialized, ProviderListXY, ProviderListPaddedXY, ProviderDelimitedXY}

\* a text that literal_eval reads as a tuple of two lists: '["X"],["Y"]'
ProviderTupleOfLists ==
    ("Provider Orgs Full Name" :>
        Str(<<"[", "\"", "X", "\"", "]", ",", "[", "\"", "Y", "\"", "]">>))

ProviderBracketed == {ProviderMalformed, ProviderTupleOfLists, ProviderSerialized, ProviderX}

ProviderChoices ==
    {ProviderNone, ProviderX, ProviderLowerX, ProviderRepeated, ProviderListNameAndId,
     ProviderSerialized, ProviderMalformed, ProviderY}

\* the donor-agency identifiers of a project
ProjectDonorsNone == NoFields
ProjectDonorsList == ("Project Donor Agencies" :> List(<<Str(AgencyId(2))>>))
ProjectDonorsText ==
    ("Project Donor Agencies" :> Str(AgencyId(1) \o <<",", " ">> \o AgencyId(2) \o <<",">> \o AgencyId(9)))

\* identifiers given twice, out of table order, with a null among them
ProjectDonorsRepeated ==
    ("Project Donor Agencies" :>
        List(<<Str(AgencyId(2)), Str(AgencyId(1)), None, Str(AgencyId(2)), Str(<<" ">> \o AgencyId(1))>>))

ProjectPool ==
    {provider @@ donors : provider \in ProviderChoices,
                          donors \in {ProjectDonorsNone, ProjectDonorsList}}

\* P1 (no agencies) and P2 (agency 2) of X, P3 (agency 2) of Y
BaseProjects ==
    <<ProviderX @@ ProjectDonorsNone, ProviderX @@ ProjectDonorsList, ProviderY @@ ProjectDonorsList>>

\* X carries the agency FFO at organization level, Y carries none
BaseOrgs == <<OrgNamedX @@ DonorFFO, OrgNamedY @@ DonorNone>>

\* The tables a run reads: every agency table over the pool with the base
\* projects and two projects of X that name agencies by text and repeatedly, every project table over the pool with the base agencies, and
\* every organization table over the pool with the base agencies and projects,
\* every table of projects of X and Y in the shapes of the provider field, and
\* every table of projects whose provider field is a bracketed text, and every
\* table of agencies that name their owner with one organization X.
InputTables ==
    {[a |-> as, o |-> <<OrgNamedX @@ donor>>,
      p |-> BaseProjects \o <<ProviderX @@ ProjectDonorsText, ProviderX @@ ProjectDonorsRepeated>>] :
        as \in SeqsUpTo(AgencyPool, MaxAgencies), donor \in DonorChoices}
    \cup {[a |-> BaseAgencies, o |-> BaseOrgs, p |-> ps] : ps \in SeqsUpTo(ProjectPool, MaxProjects)}
    \cup {[a |-> BaseAgencies, o |-> os,
           p |-> BaseProjects \o <<ProviderX @@ ProjectDonorsText>>] : os \in SeqsUpTo(OrgPool, MaxOrgs)}
    \cup {[a |-> BaseAgencies, o |-> BaseOrgs, p |-> ps] :
            ps \in SeqsUpTo(ProviderShapesXY, MaxProjects)}
    \cup {[a |-> BaseAgencies, o |-> BaseOrgs, p |-> ps] :
            ps \in SeqsUpTo(ProviderBracketed, MaxProjects)}
    \cup {[a |-> as, o |-> <<OrgNamedX @@ donor>>, p |-> BaseProjects] :
            as \in SeqsUpTo(OwnedAgencyPool, MaxAgencies),
            donor \in {DonorNone, DonorFFO, DonorMixedCase, DonorList}}

\* the record tables of the field tables t
TablesOf(t) ==
    [a |-> Records(t.a, [n \in DOMAIN t.a |-> AgencyId(n)]),
     o |-> Records(t.o, [n \in DOMAIN t.o |-> OrgId(n)]),
     p |-> Records(t.p, [n \in DOMAIN t.p |-> ProjectId(n)])]

\* a key, and the records of a table that lack it: none, the first, or all
MissingKeys ==
    {[key |-> "id", from |-> "none"]}
    \cup {[key |-> k, from |-> w] : k \in {"id", "fields"}, w \in {"first", "all"}}

\* The table recs with the records of m lacking the key of m: a record without
\* "id" reads as None (record.get("id")), a record without "fields" reads as
\* the empty mapping (record.get("fields", {}))
Without(recs, m) ==
    LET count == IF m.from = "none" THEN 0 ELSE IF m.from = "first" THEN 1 ELSE Len(recs) IN
    [n \in DOMAIN recs |->
        IF n > count THEN recs[n]
        ELSE IF m.key = "id" THEN [recs[n] EXCEPT !.id = None]
        ELSE [recs[n] EXCEPT !.fields = NoFields]]

\* the base tables, with an agency without name and one without country, and
\* with a project named by X under its name and its identifier
SparseBase ==
    TablesOf([a |-> BaseAgencies \o <<AgNoName, AgBlankName>>,
              o |-> BaseOrgs \o <<OrgUnnamed @@ DonorFFO>>,
              p |-> BaseProjects \o <<ProviderNone @@ ProjectDonorsList>>])

\* the base tables with records that lack "id" or "fields"
SparseTables ==
    {[a |-> Without(SparseBase.a, ma), o |-> Without(SparseBase.o, mo),
      p |-> Without(SparseBase.p, mp)] :
        ma \in MissingKeys, mo \in MissingKeys, mp \in MissingKeys}

\* provider fields with a blank element, in the three shapes of the field: a
\* list with the item ' ', the serialized list '["","X"]', the text '""'
ProviderListBlank == ("Provider Org" :> List(<<Str(<<" ">>), Str(NameX)>>))
ProviderSerializedBlank ==
    ("Provider Orgs Full Name" :> Str(<<"[", "\"", "\"", ",", "\"", "X", "\"", "]">>))
ProviderQuotedBlank == ("Provider Orgs Full Name" :> Str(<<"\"", "\"">>))

BlankProviderPool ==
    {ProviderListBlank, ProviderSerializedBlank, ProviderQuotedBlank, ProviderLowerX}

\* the base agencies, the organization X and an unnamed one, with or without
\* their identifiers, and every table of projects with blank provider elements
BlankTables ==
    {[TablesOf([a |-> BaseAgencies, o |-> <<OrgNamedX @@ DonorNone, OrgUnnamed @@ DonorNone>>,
                p |-> ps])
        EXCEPT !.o = Without(@, [key |-> "id", from |-> w])] :
        ps \in SeqsUpTo(BlankProviderPool, MaxProjects), w \in {"none", "first", "all"}}

\* the selected-agency lists a filter run is given
SelectedChoices == {<<>>, <<FFO>>, <<UnlistedAgency>>, GERMANY_AGENCIES}

-----------------------------------------------------------------------------
(* The scripts *)

TokIdle ==
    /\ text = <<>>
    /\ tpos = 1
    /\ tokens = <<>>
    /\ current = <<>>
    /\ depth = 0
    /\ in_quotes = FALSE
    /\ quote_char = ""
    /\ cleaned = <<>>
    /\ tpc = "idle"

\* the three tables are read from the files
Loaded(tables) ==
    /\ agencies = tables.a
    /\ organizations = tables.o
    /\ projects = tables.p

Init ==
    /\ TokIdle
    /\ FetchIdle
    /\ \/ \E t \in InputTables : Loaded(TablesOf(t))
       \/ \E tables \in SparseTables \cup BlankTables : Loaded(tables)
    /\ agencies_by_id = <<>>
    /\ agencies_by_name = <<>>
    /\ projects_by_org = <<>>
    /\ nested = <<>>
    /\ rerun_orgs = <<>>
    /\ rerun = <<>>
    /\ n_agencies_by_org = <<>>
    /\ n_agencies_by_name = <<>>
    /\ n_projects_by_org = <<>>
    /\ n_agencies_by_id = <<>>
    /\ n_nested = <<>>
    /\ selected_agencies = <<>>
    /\ germany_only_orgs = <<>>
    /\ germany_only_projects = 0
    /\ germany_with_agencies_orgs = <<>>
    /\ germany_with_agencies_projects = 0
    /\ excluded_orgs = <<>>
    /\ visible_projects = <<>>
    /\ should_show = FALSE
    /\ i = 1
    /\ pc = "start"

\* 02_build_nested_data.py main, lines 294-295
BuildIndices ==
    /\ pc = "start"
    /\ LET idx == build_agency_indices(agencies) IN
        /\ agencies_by_id' = idx.by_id
        /\ agencies_by_name' = idx.by_name
    /\ projects_by_org' = build_project_index(projects)
    /\ nested' = <<>>
    /\ i' = 1
    /\ pc' = "orgs"
    /\ UNCHANGED <<tokvars, fetchvars, rerunvars, inputvars, nestingvars, filtervars>>

\* 02_build_nested_data.py main, lines 300-328: one iteration of the loop
BuildOrg ==
    /\ pc = "orgs"
    /\ i <= Len(organizations)
    /\ nested' \in NestedAfter(nested, organizations[i], agencies_by_id, agencies_by_name,
                              projects_by_org)
    /\ projects' = ProjectsAfterNest(projects, organizations[i], agencies_by_id, projects_by_org)
    /\ i' = i + 1
    /\ UNCHANGED <<tokvars, fetchvars, rerunvars, organizations, agencies,
                   agencies_by_id, agencies_by_name, projects_by_org,
                   nestingvars, filtervars, pc>>

\* 02_build_nested_data.py main, lines 330-337: organizations-nested.json is written
SaveNested ==
    /\ pc = "orgs"
    /\ i > Len(organizations)
    /\ pc' = "built"
    /\ UNCHANGED <<tokvars, fetchvars, rerunvars, inputvars, buildvars, nestingvars, filtervars, i>>

\* the organization tables of a second run: the same table, the table
\* reversed, each organization alone, the table with the fields of the first
\* organization emptied, and the table with the first organization added again
OrgVariants(orgs) ==
    {orgs, [n \in DOMAIN orgs |-> orgs[Len(orgs) + 1 - n]]}
    \cup {<<orgs[n]>> : n \in DOMAIN orgs}
    \cup {[orgs EXCEPT ![n].fields = NoFields] : n \in DOMAIN orgs \cap {1}}
    \cup {Append(orgs, orgs[n]) : n \in DOMAIN orgs \cap {1}}

\* 02_build_nested_data.py main, lines 278-337, run once more: the agency and
\* project files are the same, so the indices are those of the first run; the
\* organization file is one of the variants
RunAgain ==
    /\ pc = "built"
    /\ LET idx == [by_id |-> agencies_by_id, by_name |-> agencies_by_name]
           p_by_org == projects_by_org
       IN \E orgs \in OrgVariants(organizations) :
            /\ rerun_orgs' = orgs
            /\ rerun' \in MainLoop(orgs, idx, p_by_org)
    /\ pc' = "rebuilt"
    /\ UNCHANGED <<tokvars, fetchvars, inputvars, buildvars, nestingvars, filtervars, i>>

\* nesting.py main, lines 172-246: the indices
NestingIndices ==
    /\ pc = "start"
    /\ LET idx == nesting_agency_indices(agencies) IN
        /\ n_agencies_by_org' = idx.by_org
        /\ n_agencies_by_name' = idx.by_name
    /\ n_projects_by_org' = NestingIndexProjects(<<>>, projects)
    /\ n_agencies_by_id' = NestingAgenciesById(<<>>, agencies)
    /\ n_nested' = <<>>
    /\ i' = 1
    /\ pc' = "nesting_indexed"
    /\ UNCHANGED <<tokvars, fetchvars, rerunvars, inputvars, buildvars, filtervars>>

\* nesting.py main, lines 247-326: one iteration of the loop
NestingOrg ==
    /\ pc = "nesting_indexed"
    /\ i <= Len(organizations)
    /\ n_nested' \in NestingAfter(n_nested, organizations[i], n_agencies_by_org,
                                 n_agencies_by_name, n_agencies_by_id, n_projects_by_org)
    /\ i' = i + 1
    /\ UNCHANGED <<tokvars, fetchvars, rerunvars, inputvars, buildvars, filtervars, n_agencies_by_org,
                   n_agencies_by_name, n_projects_by_org, n_agencies_by_id, pc>>

\* nesting.py main, lines 328-332: organizations-nested.json is written
NestingSave ==
    /\ pc = "nesting_indexed"
    /\ i > Len(organizations)
    /\ pc' = "nesting_built"
    /\ UNCHANGED <<tokvars, fetchvars, rerunvars, inputvars, buildvars, nestingvars, filtervars, i>>

\* detailed_filter_analysis.py, lines 5-6 and 95-96: the nested file is read;
\* the selected agency names are the list the FILTER 2 loop passes
LoadNested ==
    /\ pc = "built"
    /\ \E selected \in SelectedChoices : selected_agencies' = selected
    /\ germany_only_orgs' = <<>>
    /\ germany_only_projects' = 0
    /\ i' = 1
    /\ pc' = "filter1"
    /\ UNCHANGED <<tokvars, fetchvars, rerunvars, inputvars, buildvars, nestingvars, germany_with_agencies_orgs,
                   germany_with_agencies_projects, excluded_orgs, visible_projects, should_show>>

\* lines 98-105: one iteration of the FILTER 1 loop; a TypeError raised by
\* get_all_donors ends the script
Filter1Org ==
    /\ pc = "filter1"
    /\ i <= Len(nested)
    /\ LET org == nested[i]
           all_donors == get_all_donors(org)
       IN IF all_donors.raised
          THEN /\ pc' = "crashed"
               /\ UNCHANGED <<germany_only_orgs, germany_only_projects, i>>
          ELSE /\ IF Germany \in all_donors.donors
                  THEN /\ germany_only_orgs' = Append(germany_only_orgs, org)
                       /\ germany_only_projects' = germany_only_projects + Len(org.projects)
                  ELSE UNCHANGED <<germany_only_orgs, germany_only_projects>>
               /\ i' = i + 1
               /\ pc' = pc
    /\ UNCHANGED <<tokvars, fetchvars, rerunvars, inputvars, buildvars, nestingvars, selected_agencies,
                   germany_with_agencies_orgs, germany_with_agencies_projects, excluded_orgs,
                   visible_projects, should_show>>

\* lines 107-116: the counts are printed and the FILTER 2 loop starts
Filter1Done ==
    /\ pc = "filter1"
    /\ i > Len(nested)
    /\ germany_with_agencies_orgs' = <<>>
    /\ germany_with_agencies_projects' = 0
    /\ excluded_orgs' = <<>>
    /\ i' = 1
    /\ pc' = "filter2"
    /\ UNCHANGED <<tokvars, fetchvars, rerunvars, inputvars, buildvars, nestingvars, selected_agencies,
                   germany_only_orgs, germany_only_projects, visible_projects, should_show>>

\* line 136
ShouldShow_countrygate(visible, org_has_agency) == TRUE
ShouldShow(visible, org_has_agency) == Len(visible) > 0 \/ org_has_agency

\* lines 118-147: one iteration of the FILTER 2 loop
Filter2Org ==
    /\ pc = "filter2"
    /\ i <= Len(nested)
    /\ LET org == nested[i]
           all_donors == get_all_donors(org)
           org_has_agency == org_has_selected_agency(org, selected_agencies)
           visible == VisibleProjects(org.projects, selected_agencies, org_has_agency)
       IN IF all_donors.raised
          THEN /\ pc' = "crashed"
               /\ UNCHANGED <<germany_with_agencies_orgs, germany_with_agencies_projects,
                              excluded_orgs, visible_projects, should_show, i>>
          ELSE IF Germany \notin all_donors.donors
          THEN /\ i' = i + 1
               /\ pc' = pc
               /\ UNCHANGED <<germany_with_agencies_orgs, germany_with_agencies_projects,
                              excluded_orgs, visible_projects, should_show>>
          ELSE /\ visible_projects' = visible
               /\ should_show' = ShouldShow(visible, org_has_agency)
               /\ IF should_show'
                  THEN /\ germany_with_agencies_orgs' = Append(germany_with_agencies_orgs, org)
                       /\ germany_with_agencies_projects' =
                              germany_with_agencies_projects + Len(visible)
                       /\ UNCHANGED excluded_orgs
                  ELSE /\ excluded_orgs' =
                              Append(excluded_orgs,
                                     [org |-> org,
                                      org_agencies |-> get_org_level_germany_agencies(org),
                                      project_count |-> Len(org.projects),
                                      projects |-> org.projects])
                       /\ UNCHANGED <<germany_with_agencies_orgs, germany_with_agencies_projects>>
               /\ i' = i + 1
               /\ pc' = pc
    /\ UNCHANGED <<tokvars, fetchvars, rerunvars, inputvars, buildvars, nestingvars, selected_agencies,
                   germany_only_orgs, germany_only_projects>>

\* lines 149-150: the counts are printed
Filter2Done ==
    /\ pc = "filter2"
    /\ i > Len(nested)
    /\ pc' = "done"
    /\ UNCHANGED <<tokvars, fetchvars, rerunvars, inputvars, buildvars, nestingvars, filtervars, i>>

Next ==
    \/ BuildIndices
    \/ BuildOrg
    \/ SaveNested
    \/ RunAgain
    \/ NestingIndices
    \/ NestingOrg
    \/ NestingSave
    \/ LoadNested
    \/ Filter1Org
    \/ Filter1Done
    \/ Filter2Org
    \/ Filter2Done

Spec == Init /\ [][Next]_vars

-----------------------------------------------------------------------------
(* scripts/01_fetch_airtable.py main, with fetch_all_records of _utils.py *)

\* the most requests one call is followed for
MaxPages == 3

\* lines 195, 209, 225, 242: the tables in the order main fetches them
Tables == <<"projects", "organizations", "agencies", "themes">>

\* lines 29-39
ProjectFields ==
    <<"Project/Product Name", "product_key", "Provider Orgs Full Name", "Investment Type(s)",
      "Investment Theme(s)", "Project Website", "Project Description", "Project Donor Agencies",
      "HDX_SOHD">>

\* lines 40-65
OrganizationFields ==
    <<"org_key", "Org Full Name", "HDX Org Key", "IATI Org Key", "Est. Org Budget",
      "Budget Source", "Link to Budget Source", "Budget Source Screenshot", "Last Updated",
      "Org Type", "Org Short Name", "Org Website", "Org HQ Country", "Org Description",
      "Link to Data Products Overview", "Org IATI Name", "Org MPTFO Name",
      "Org MPTFO URL [Formula]", "UN Funding Link", "Org Transparency Portal",
      "Org Programme Budget", "Org Donor Agencies", "Provided Data Ecosystem Projects",
      "Funding Type">>

\* lines 84-94
OPTIONAL_ORGANIZATION_FIELDS ==
    {"Link to Budget Source", "Org Description", "Org Mission", "Link to Data Products Overview",
     "Org IATI Name", "Org MPTFO Name", "Org MPTFO URL [Formula]", "Org Transparency Portal",
     "Org Programme Budget"}

\* lines 156 and 169: the fields that none of the first 10 records carries; a
\* record is read for the names of its fields only
MissingFrom(names, records) ==
    SelectSeq(names,
              LAMBDA field :
                  ~\E k \in DOMAIN records : k <= 10 /\ field \in records[k].fields)

\* lines 128-176: the errors, each with the fields it names
validate_data_quality_projectsonly(ps, orgs) ==
    IF Len(ps) < 100 THEN <<[error |-> "Insufficient projects", fields |-> <<>>]>> ELSE <<>>
validate_data_quality(ps, orgs) ==
    (IF Len(ps) < 100 THEN <<[error |-> "Insufficient projects", fields |-> <<>>]>> ELSE <<>>)
    \o (IF Len(orgs) < 50
        THEN <<[error |-> "Insufficient organizations", fields |-> <<>>]>> ELSE <<>>)
    \o (IF ps # <<>> /\ MissingFrom(ProjectFields, ps) # <<>>
        THEN <<[error |-> "Missing project fields", fields |-> MissingFrom(ProjectFields, ps)]>>
        ELSE <<>>)
    \o (LET required == SelectSeq(OrganizationFields,
                                  LAMBDA field : field \notin OPTIONAL_ORGANIZATION_FIELDS)
        IN IF orgs # <<>> /\ MissingFrom(required, orgs) # <<>>
           THEN <<[error |-> "Missing organization fields",
                   fields |-> MissingFrom(required, orgs)]>>
           ELSE <<>>)

\* _utils.py line 165: the response to a request that carries the offset: the
\* first page when none is sent, else the page the offset names
PageToken(k) == <<"o", Digits[k]>>

PageFor(pages, offset) ==
    IF ~Truthy(offset) THEN pages[1]
    ELSE pages[CHOOSE k \in DOMAIN pages : Str(PageToken(k)) = offset]

\* _utils.py lines 159-160: the offset parameter of the request
SentOffset(offset) == IF Truthy(offset) THEN offset ELSE None

\* _utils.py line 167
ExtendRecords_lastpage(all_records, records) == records
ExtendRecords(all_records, records) == all_records \o records

\* lines 206, 222, 239: the first configured table from the k-th on, or ""
RECURSIVE NextConfigured(_, _)
NextConfigured(config, k) ==
    IF k > Len(Tables) THEN ""
    ELSE IF config[Tables[k]] THEN Tables[k]
    ELSE NextConfigured(config, k + 1)

TableIndex(t) == CHOOSE k \in DOMAIN Tables : Tables[k] = t

\* the list a variable of main holds of a table: the returned list, or the []
\* it was initialized with
ListOf(returned, t) == IF returned[t].state = "returned" THEN returned[t].records ELSE <<>>

\* ---- what the server holds ----

\* n records of page p of table t, each with the fields fs
PageRecords(t, p, n, fs) == [k \in 1..n |-> [id |-> <<t, p, k>>, fields |-> fs]]

Page(records, offset) == [ok |-> TRUE, records |-> records, offset |-> offset]

\* a response that is not ok (fetch_airtable_page raises RuntimeError)
ErrorPage == [ok |-> FALSE, records |-> <<>>, offset |-> None]

AllOf(names) == {names[k] : k \in DOMAIN names}

ProjectsOfPage(p, n) == PageRecords("projects", p, n, AllOf(ProjectFields))
OrgsOfPage(p, n) == PageRecords("organizations", p, n, AllOf(OrganizationFields))

ProjectServers ==
    {<<Page(ProjectsOfPage(1, 100), None)>>,
     <<Page(ProjectsOfPage(1, 60), Str(PageToken(2))), Page(ProjectsOfPage(2, 40), None)>>,
     <<Page(ProjectsOfPage(1, 99), None)>>,
     <<Page(PageRecords("projects", 1, 9, AllOf(ProjectFields) \ {"HDX_SOHD"}), Str(PageToken(2))),
       Page(ProjectsOfPage(2, 91), None)>>,
     <<Page(PageRecords("projects", 1, 10, AllOf(ProjectFields) \ {"HDX_SOHD"}), Str(PageToken(2))),
       Page(ProjectsOfPage(2, 90), None)>>,
     <<Page(ProjectsOfPage(1, 100), Str(PageToken(2))), ErrorPage>>,
     <<Page(ProjectsOfPage(1, 100), Str(<<>>)), Page(ProjectsOfPage(2, 5), None)>>}

OrganizationServers ==
    {<<Page(OrgsOfPage(1, 50), None)>>,
     <<Page(OrgsOfPage(1, 49), None)>>,
     <<Page(OrgsOfPage(1, 30), Str(PageToken(2))), Page(OrgsOfPage(2, 20), None)>>,
     <<Page(OrgsOfPage(1, 50), Str(PageToken(2))), ErrorPage>>,
     <<Page(PageRecords("organizations", 1, 50,
                        AllOf(OrganizationFields) \ OPTIONAL_ORGANIZATION_FIELDS), None)>>,
     <<Page(PageRecords("organizations", 1, 50, AllOf(OrganizationFields) \ {"Org Full Name"}),
            None)>>}

SmallServers ==
    {<<Page(PageRecords("agencies", 1, 2, {"Country Name"}), None)>>, <<ErrorPage>>}

\* every list of up to MaxPages pages of one project each, every page an error
\* or a page with no offset, an empty offset or the token of a page of the list
PagedServers ==
    UNION {{[k \in 1..n |->
                IF shape[k].ok THEN Page(ProjectsOfPage(k, 1), shape[k].offset) ELSE ErrorPage] :
            shape \in [1..n -> {[ok |-> FALSE, offset |-> None]}
                               \cup {[ok |-> TRUE, offset |-> o] :
                                        o \in {None, Str(<<>>)}
                                              \cup {Str(PageToken(k)) : k \in 1..n}}]} :
           n \in 1..MaxPages}

AllTables == [projects |-> TRUE, organizations |-> TRUE, agencies |-> TRUE, themes |-> TRUE]

ValidServer ==
    [projects |-> <<Page(ProjectsOfPage(1, 100), None)>>,
     organizations |-> <<Page(OrgsOfPage(1, 50), None)>>,
     agencies |-> <<Page(PageRecords("agencies", 1, 2, {"Country Name"}), None)>>,
     themes |-> <<Page(PageRecords("themes", 1, 1, {"THEME_ID"}), None)>>]

\* The runs of the script: every project server with the agencies and themes
\* configured or not, whole or failing; every organization server, configured
\* or not; every paged server for the projects; and the required keys unset.
FetchInputs ==
    {[keys |-> TRUE, config |-> [AllTables EXCEPT !.agencies = ca, !.themes = ct],
      server |-> [ValidServer EXCEPT !.projects = ps, !.agencies = as]] :
        ps \in ProjectServers, as \in SmallServers, ca \in BOOLEAN, ct \in BOOLEAN}
    \cup {[keys |-> TRUE, config |-> [AllTables EXCEPT !.organizations = co],
           server |-> [ValidServer EXCEPT !.organizations = os, !.themes = ts]] :
            os \in OrganizationServers, co \in BOOLEAN, ts \in SmallServers}
    \cup {[keys |-> TRUE,
           config |-> [AllTables EXCEPT !.organizations = co, !.agencies = FALSE, !.themes = FALSE],
           server |-> [ValidServer EXCEPT !.projects = ps]] :
            ps \in PagedServers, co \in BOOLEAN}
    \cup {[keys |-> FALSE, config |-> AllTables, server |-> ValidServer]}

InitFetch ==
    /\ TokIdle
    /\ PipelineIdle
    /\ \E input \in FetchInputs :
        /\ f_config = [keys |-> input.keys] @@ input.config
        /\ f_server = input.server
    /\ f_table = ""
    /\ f_all_records = <<>>
    /\ f_offset = None
    /\ f_sent = [t \in AllOf(Tables) |-> <<>>]
    /\ f_got = [t \in AllOf(Tables) |-> <<>>]
    /\ f_returned = [t \in AllOf(Tables) |-> [state |-> "none", records |-> <<>>]]
    /\ f_saved = {}
    /\ f_errors = <<>>
    /\ f_launched = FALSE
    /\ f_status = -1
    /\ f_pc = "start"

\* lines 183-201: the configuration is read and checked (validate_config exits
\* with status 1 when a required key is unset), fetch_all_records is called on
\* the projects
FetchStart ==
    /\ f_pc = "start"
    /\ IF f_config.keys
       THEN /\ f_table' = "projects"
            /\ f_pc' = "fetching"
            /\ UNCHANGED f_status
       ELSE /\ f_status' = 1
            /\ f_pc' = "exited"
            /\ UNCHANGED f_table
    /\ f_all_records' = <<>>
    /\ f_offset' = None
    /\ UNCHANGED <<f_config, f_server, f_sent, f_got, f_returned, f_saved, f_errors, f_launched>>
    /\ UNCHANGED <<tokvars, pipevars>>

\* _utils.py lines 155-175, one iteration of the while loop of
\* fetch_all_records: a page is requested with the offset and read. A page that
\* is not ok raises: main exits with status 1 for the projects (lines 288-290)
\* and goes on for another table (lines 217, 234, 251). After a page without
\* offset the list is returned, main saves it (lines 202, 216, 232, 249) and
\* calls fetch_all_records on the next configured table.
FetchPage ==
    /\ f_pc = "fetching"
    /\ Len(f_sent[f_table]) < MaxPages + 1
    /\ LET data == PageFor(f_server[f_table], f_offset)
           all == ExtendRecords(f_all_records, data.records)
           next == NextConfigured(f_config, TableIndex(f_table) + 1)
       IN /\ f_sent' = [f_sent EXCEPT ![f_table] = Append(@, SentOffset(f_offset))]
          /\ f_got' = [f_got EXCEPT ![f_table] = Append(@, data)]
          /\ IF data.ok /\ Truthy(data.offset)
             THEN /\ f_all_records' = all
                  /\ f_offset' = data.offset
                  /\ UNCHANGED <<f_table, f_returned, f_saved, f_status, f_pc>>
             ELSE /\ f_all_records' = <<>>
                  /\ f_offset' = None
                  /\ f_returned' =
                        [f_returned EXCEPT ![f_table] =
                            IF data.ok THEN [state |-> "returned", records |-> all]
                            ELSE [state |-> "raised", records |-> <<>>]]
                  /\ f_saved' = IF data.ok THEN f_saved \cup {f_table} ELSE f_saved
                  /\ IF ~data.ok /\ f_table = "projects"
                     THEN /\ f_status' = 1
                          /\ f_pc' = "exited"
                          /\ f_table' = ""
                     ELSE /\ f_table' = next
                          /\ f_pc' = IF next = "" THEN "fetched" ELSE "fetching"
                          /\ UNCHANGED f_status
    /\ UNCHANGED <<f_config, f_server, f_errors, f_launched>>
    /\ UNCHANGED <<tokvars, pipevars>>

\* lines 254-280: the summary is logged and the data validated; with an error
\* the process exits with status 1, without one the nesting script is launched
Validate ==
    /\ f_pc = "fetched"
    /\ f_errors' = validate_data_quality(ListOf(f_returned, "projects"),
                                         ListOf(f_returned, "organizations"))
    /\ IF f_errors' # <<>>
       THEN /\ f_status' = 1
            /\ f_pc' = "exited"
            /\ UNCHANGED f_launched
       ELSE /\ f_launched' = TRUE
            /\ f_pc' = "nesting"
            /\ UNCHANGED f_status
    /\ UNCHANGED <<f_config, f_server, f_table, f_all_records, f_offset, f_sent, f_got,
                   f_returned, f_saved>>
    /\ UNCHANGED <<tokvars, pipevars>>

\* lines 277-286: the nesting script returns; the process ends with status 0
\* when its return code is 0 and exits with status 1 otherwise
NestingReturns ==
    /\ f_pc = "nesting"
    /\ \E returncode \in {0, 1} : f_status' = IF returncode = 0 THEN 0 ELSE 1
    /\ f_pc' = "exited"
    /\ UNCHANGED <<f_config, f_server, f_table, f_all_records, f_offset, f_sent, f_got,
                   f_returned, f_saved, f_errors, f_launched>>
    /\ UNCHANGED <<tokvars, pipevars>>

NextFetch == FetchStart \/ FetchPage \/ Validate \/ NestingReturns

SpecFetch == InitFetch /\ [][NextFetch]_vars

\* every request ends within its timeout (_utils.py line 123) and the script
\* has one thread, so a step that can be taken is taken
SpecFetchFair == InitFetch /\ [][NextFetch]_vars /\ WF_vars(NextFetch)

-----------------------------------------------------------------------------
(* Properties of the build *)

\* the arguments main passes to match_projects for a nested entry
EntryName(entry) == PyStrOf(PyOr(entry.name, Str(<<>>)))
EntryId(entry) == PyStrOf(PyOr(entry.id, Str(<<>>)))

Distinct(ids) == \A a, b \in DOMAIN ids : a # b => ids[a] # ids[b]

IdsOf(records) == [n \in DOMAIN records |-> records[n].id]

\* the position of the first record of the list that carries the identifier
FirstPos(records, id) ==
    CHOOSE n \in DOMAIN records :
        records[n].id = id /\ \A m \in DOMAIN records : records[m].id = id => n <= m

\* C1: no two entries of an organization's agencies list share an agency
\* identifier, whatever the donor-agency field contains.
C1_AgenciesDistinct ==
    \A n \in DOMAIN nested : Distinct(IdsOf(nested[n].agencies))

\* C2: match_projects returns no two projects with the same identifier, in
\* first-seen order: each project found (by any strategy, any number of
\* times) appears once, at the position of its first occurrence.
C2_ProjectsDistinctFirstSeen ==
    pc \in {"orgs", "built"} => \A n \in DOMAIN nested :
        LET found == MatchedProjects(EntryName(nested[n]), EntryId(nested[n]), projects_by_org)
            kept == nested[n].projects
        IN /\ Distinct(IdsOf(kept))
           /\ {kept[a].id : a \in DOMAIN kept} = {found[a].id : a \in DOMAIN found}
           /\ \A a \in DOMAIN kept :
                LET first == found[FirstPos(found, kept[a].id)] IN
                /\ kept[a].fields = first.fields
                /\ \A b \in DOMAIN kept :
                      a < b => FirstPos(found, kept[a].id) < FirstPos(found, kept[b].id)

C2_Witness ==
    \E n \in DOMAIN nested :
        LET found == MatchedProjects(EntryName(nested[n]), EntryId(nested[n]), projects_by_org)
        IN /\ Len(nested[n].projects) = 2
           /\ Len(found) > 3
           /\ found[1].id = found[2].id

\* the normalized text under which the name index is to hold an agency: the
\* first non-empty value among the name fields, or the identifier
RECURSIVE FirstNonEmptyName(_, _, _)
FirstNonEmptyName(a, names, n) ==
    IF n > Len(names) THEN a.id.v
    ELSE IF n \in DOMAIN names /\ names[n] \in DOMAIN a.fields /\ a.fields[names[n]].t = "str"
            /\ strip(a.fields[names[n]].v) # <<>>
    THEN a.fields[names[n]].v
    ELSE FirstNonEmptyName(a, names, n + 1)

\* the positions, in the agency table, of the agencies of a bucket
BucketsHolding(index, a) == {n \in DOMAIN index : \E m \in DOMAIN index[n].v : index[n].v[m] = a}

NameIndexTotal(index, names) ==
    /\ \A k \in DOMAIN agencies :
          /\ Cardinality(BucketsHolding(index, agencies[k])) = 1
          /\ \A n \in BucketsHolding(index, agencies[k]) :
                /\ index[n].k = lower(strip(FirstNonEmptyName(agencies[k], names, 1)))
                /\ Cardinality({m \in DOMAIN index[n].v : index[n].v[m] = agencies[k]}) = 1
    /\ \A n \in DOMAIN index :
          \A a, b \in DOMAIN index[n].v :
              a < b => \E k, l \in DOMAIN agencies :
                          k < l /\ agencies[k] = index[n].v[a] /\ agencies[l] = index[n].v[b]

\* C10: the agency name index is total: every agency is in exactly one bucket
\* of by_name, keyed by trim+lowercase of its first non-empty name field or of
\* its identifier when it has none; buckets keep the input order.
C10_NameIndexTotal ==
    /\ pc \in {"orgs", "built", "filter1", "filter2", "done", "crashed"} =>
          NameIndexTotal(agencies_by_name, name_fields)
    /\ pc = "nesting_indexed" => NameIndexTotal(n_agencies_by_name, nesting_name_keys)

\* the part of C10 that scripts/nesting.py meets
C10_NestingNameIndexTotal ==
    pc = "nesting_indexed" => NameIndexTotal(n_agencies_by_name, nesting_name_keys)

-----------------------------------------------------------------------------
(* Properties of the project index *)

\* the build has indexed the tables
Indexed == pc \in {"orgs", "built", "filter1", "filter2", "done", "crashed"}

\* the states of the build once the indices are built: the loop over the
\* organizations is running or over. The scripts that run after the build
\* leave the indices and the output list as they are.
InBuild == pc \in {"orgs", "built"}

\* the number of times the bucket holds the project
RECURSIVE CountIn(_, _)
CountIn(bucket, project) ==
    IF bucket = <<>> THEN 0
    ELSE (IF Head(bucket) = project THEN 1 ELSE 0) + CountIn(Tail(bucket), project)

\* the keys under which the index holds the project
KeysOf(index, project) ==
    {index[n].k : n \in {m \in DOMAIN index : CountIn(index[m].v, project) > 0}}

\* the index holds the project once under each of the keys and nowhere else
IndexedOnceUnder(index, project, keys) ==
    /\ KeysOf(index, project) = keys
    /\ \A n \in DOMAIN index : CountIn(index[n].v, project) <= 1

\* the keys of an index with the identifiers of the projects of each bucket
IndexShape(index) ==
    [n \in DOMAIN index |-> [k |-> index[n].k, ids |-> IdsOf(index[n].v)]]

\* the project table with every provider field of X and Y given as shape
Reshaped(ps, shape) ==
    [n \in DOMAIN ps |->
        IF ps[n].fields \in ProviderShapesXY THEN [ps[n] EXCEPT !.fields = shape] ELSE ps[n]]

\* C11: a project of the providers X and Y is indexed once under the key X
\* and once under the key Y and under no other key, whether its provider
\* field is the serialized list, the list or the delimited string; the index
\* of a table does not change (keys, bucket order) when the shapes are swapped.
C11_ProviderShapesIndexAlike ==
    InBuild =>
        /\ \A n \in DOMAIN projects :
              projects[n].fields \in ProviderShapesXY =>
                  IndexedOnceUnder(projects_by_org, projects[n], {NameX, NameY})
        /\ \A shape \in ProviderShapesXY :
              IndexShape(build_project_index(Reshaped(projects, shape))) = IndexShape(projects_by_org)

C11_Witness ==
    /\ InBuild
    /\ Len(projects) = 2
    /\ projects[1].fields = ProviderSerialized
    /\ projects[2].fields = ProviderListPaddedXY
    /\ IndexShape(projects_by_org) =
          << [k |-> NameX, ids |-> <<projects[1].id, projects[2].id>>],
             [k |-> NameY, ids |-> <<projects[1].id, projects[2].id>>] >>

provider_keys == {"Provider Orgs Full Name", "Provider Org", "Organization"}

\* the text starts with "[" and ends with "]"
Bracketed(x) == IsStr(x) /\ startswith(x.v, "[") /\ endswith(x.v, "]")

\* the text is the literal of a list
IsLiteralList(x) == literal_eval(x.v).ok /\ literal_eval(x.v).islist

\* the text is not the literal of a list; when raising is asked for, the text
\* is no literal at all (literal_eval raises)
Unparsed(x, raising) == IF raising THEN ~literal_eval(x.v).ok ELSE ~IsLiteralList(x)

\* the project table in which every bracketed provider text that is Unparsed
\* is preceded by a blank: a plain string with the same tokens
Unbracketed(ps, raising) ==
    [n \in DOMAIN ps |->
        [ps[n] EXCEPT !.fields =
            [k \in DOMAIN ps[n].fields |->
                IF k \in provider_keys /\ Bracketed(ps[n].fields[k])
                   /\ Unparsed(ps[n].fields[k], raising)
                THEN Str(<<" ">> \o ps[n].fields[k].v)
                ELSE ps[n].fields[k]]]]

\* C12: a provider text in brackets that is not the literal of a list is
\* handled as a plain string: the index is the one built from the table in
\* which that text is a plain string with the same tokens, so the project is
\* under each token of the raw text and the other projects are indexed alike.
C12_MalformedFallsToTokenizer ==
    Indexed =>
        IndexShape(projects_by_org) = IndexShape(build_project_index(Unbracketed(projects, FALSE)))

\* the part of C12 that holds: the texts on which literal_eval raises
C12_HoldsWhenParseRaises ==
    Indexed =>
        IndexShape(projects_by_org) = IndexShape(build_project_index(Unbracketed(projects, TRUE)))

C12_ParseRaisesWitness ==
    /\ Indexed
    /\ Len(projects) = 2
    /\ projects[1].fields = ProviderMalformed
    /\ projects[2].fields = ProviderX
    /\ IndexShape(projects_by_org) =
          << [k |-> <<"[", "X">>, ids |-> <<projects[1].id>>],
             [k |-> <<"Y", "]">>, ids |-> <<projects[1].id>>],
             [k |-> NameX, ids |-> <<projects[2].id>>] >>

\* none of the provider fields of the project carries a value
NoProvider(project) == ~Truthy(ProviderField(project.fields))

\* the projects of the table that have a provider reference
RECURSIVE WithProvider(_)
WithProvider(ps) ==
    IF ps = <<>> THEN <<>>
    ELSE (IF NoProvider(Head(ps)) THEN <<>> ELSE <<Head(ps)>>) \o WithProvider(Tail(ps))

\* the nested entry holds the project (its copy with agencies)
Attached(entry, project) ==
    \E k \in DOMAIN entry.projects :
        entry.projects[k].id = project.id /\ entry.projects[k].fields = project.fields

\* C13: a project without provider reference is under no key of the index and
\* under no organization of the output, and the index is the one of the table
\* without that project.
C13_NoProviderNotIndexed ==
    InBuild =>
        /\ \A n \in DOMAIN projects :
              NoProvider(projects[n]) =>
                  /\ KeysOf(projects_by_org, projects[n]) = {}
                  /\ \A m \in DOMAIN nested : ~Attached(nested[m], projects[n])
        /\ projects_by_org = build_project_index(WithProvider(projects))

C13_Witness ==
    /\ pc = "built"
    /\ Len(projects) = 2
    /\ NoProvider(projects[1])
    /\ projects[2].fields = ProviderX @@ ProjectDonorsList
    /\ Len(nested) = 2
    /\ IdsOf(nested[1].projects) = <<projects[2].id>>
    /\ nested[2].projects = <<>>

\* the provider keys of a project: the trimmed names its provider field lists
ProviderKeysOf(project) ==
    LET providers == ProviderField(project.fields)
        names == IF IsList(providers) THEN StrItems(providers.v)
                 ELSE IF ~IsStr(providers) THEN <<>>
                 ELSE IF Bracketed(providers) /\ IsLiteralList(providers)
                 THEN StrItems(literal_eval(providers.v).items)
                 ELSE split_respecting_parentheses(providers.v)
    IN {strip(names[k]) : k \in DOMAIN names}

\* the number of copies of the project in the projects list of the entry
RECURSIVE CopiesIn(_, _)
CopiesIn(nps, project) ==
    IF nps = <<>> THEN 0
    ELSE (IF Head(nps).id = project.id /\ Head(nps).fields = project.fields THEN 1 ELSE 0)
         + CopiesIn(Tail(nps), project)

\* the canonical name or the identifier of the organization is a provider key
\* of the project
ProvidedBy(entry, project) ==
    \E key \in ProviderKeysOf(project) \ {<<>>} :
        key = EntryName(entry) \/ key = EntryId(entry)

-----------------------------------------------------------------------------
(* Properties of the nesting of project agencies *)

\* the identifiers the project's own field lists, in order: the str items of
\* a list, or the trimmed pieces of a comma-separated str
ListedAgencyIds(fields) ==
    LET own == GetOr(fields, "Project Donor Agencies", List(<<>>)) IN
    IF IsList(own) THEN StrItems(own.v)
    ELSE IF IsStr(own) THEN [k \in DOMAIN split_comma(own.v) |-> strip(split_comma(own.v)[k])]
    ELSE <<>>

\* the agency the table holds for the identifier (the last one), if any
HasAgency(id) == id # <<>> /\ \E n \in DOMAIN agencies : agencies[n].id = Str(id)
AgencyOf(id) ==
    agencies[CHOOSE n \in DOMAIN agencies :
                /\ agencies[n].id = Str(id)
                /\ \A m \in DOMAIN agencies : agencies[m].id = Str(id) => m <= n]

\* the agencies of the identifiers, in order, without those of no agency
RECURSIVE LookedUp(_)
LookedUp(ids) ==
    IF ids = <<>> THEN <<>>
    ELSE (IF HasAgency(Head(ids)) THEN <<AgencyOf(Head(ids))>> ELSE <<>>) \o LookedUp(Tail(ids))

\* C15: the agencies of every project of the output are the agencies of the
\* identifiers of the project's own donor-agency field, looked up in order in
\* the agency table; unknown identifiers are left out, repeated ones repeat,
\* and the organization's own agencies play no part.
C15_ProjectAgenciesFromOwnField ==
    InBuild => \A n \in DOMAIN nested :
        \A k \in DOMAIN nested[n].projects :
            nested[n].projects[k].agencies = LookedUp(ListedAgencyIds(nested[n].projects[k].fields))

C15_Witness ==
    /\ pc = "built"
    /\ agencies = Records(<<AgFFO, AgUnlisted>>, <<AgencyId(1), AgencyId(2)>>)
    /\ \E n \in DOMAIN nested :
          /\ nested[n].agencies = <<>>
          /\ \E k, l \in DOMAIN nested[n].projects :
                /\ nested[n].projects[k].fields = ProviderX @@ ProjectDonorsRepeated
                /\ nested[n].projects[k].agencies = <<agencies[2], agencies[1], agencies[2]>>
                /\ nested[n].projects[l].fields = ProviderX @@ ProjectDonorsText
                /\ nested[n].projects[l].agencies = <<agencies[1], agencies[2]>>

-----------------------------------------------------------------------------
(* Properties of donor_countries *)

\* the texts of the country field of an agency: the scalar, or the str items
CountryTexts(agency) ==
    LET country_data == Get(agency.fields, "Country Name") IN
    IF IsStr(country_data) THEN {country_data.v}
    ELSE IF IsList(country_data)
    THEN {country_data.v[k].v : k \in {j \in DOMAIN country_data.v : IsStr(country_data.v[j])}}
    ELSE {}

\* the trimmed non-empty country values of the agencies
CountryValues(as) ==
    {strip(c) : c \in UNION {CountryTexts(as[k]) : k \in DOMAIN as}} \ {<<>>}

Trimmed(c) == c # <<>> /\ ~IsSpace(c[1]) /\ ~IsSpace(c[Len(c)])

\* C16: donor_countries of every organization is strictly increasing, holds
\* only trimmed, non-empty texts, and holds exactly the trimmed non-empty
\* country values (scalar or list items) of the organization's agencies;
\* "Germany" given by one agency as a list item and by another as a scalar
\* yields ["Germany"].
C16_DonorCountriesSortedSet ==
    InBuild => \A n \in DOMAIN nested :
        LET dc == nested[n].donor_countries IN
        /\ \A a, b \in DOMAIN dc : a < b => StrLess(dc[a], dc[b])
        /\ \A a \in DOMAIN dc : Trimmed(dc[a])
        /\ {dc[a] : a \in DOMAIN dc} = CountryValues(nested[n].agencies)
        /\ ({nested[n].agencies[k].fields : k \in DOMAIN nested[n].agencies}
                = {AgFFO, AgFFOListCountry} => dc = <<Germany>>)

C16_Witness ==
    InBuild /\ \E n \in DOMAIN nested :
        /\ Len(nested[n].agencies) = 2
        /\ nested[n].agencies[1].fields = AgPaddedCountry
        /\ nested[n].agencies[2].fields = AgFrance
        /\ nested[n].donor_countries = <<France, Germany>>

-----------------------------------------------------------------------------
(* Properties of a run of main as a whole *)

\* the list holds one record for each organization of the table, in its order
OneRecordEach(list, orgs) ==
    /\ Len(list) = Len(orgs)
    /\ \A n \in DOMAIN orgs :
          /\ list[n].id = orgs[n].id
          /\ list[n].fields = orgs[n].fields

\* C17: during the loop the output holds one record for each organization
\* already visited, and a finished run has written exactly one record for each
\* organization of its table, in the order of the table; the record of an
\* organization is the same in every run over the same agency and project
\* tables, whatever other organizations the table holds and wherever the
\* organization stands in it.
C17_OneRecordPerOrgIndependent ==
    /\ pc = "orgs" => OneRecordEach(nested, SubSeq(organizations, 1, i - 1))
    /\ pc \in {"built", "rebuilt"} => OneRecordEach(nested, organizations)
    /\ pc = "rebuilt" =>
          /\ OneRecordEach(rerun, rerun_orgs)
          /\ \A a \in DOMAIN organizations : \A b \in DOMAIN rerun_orgs :
                organizations[a] = rerun_orgs[b] => nested[a] = rerun[b]

\* the second run read the two base organizations in the other order, and the
\* record of X, which matched an agency and a project, moved with it
C17_Witness ==
    /\ pc = "rebuilt"
    /\ Len(organizations) = 2
    /\ rerun_orgs = <<organizations[2], organizations[1]>>
    /\ nested[1].agencies # <<>>
    /\ nested[1].projects # <<>>
    /\ nested[2] # nested[1]
    /\ rerun[2] = nested[1]

C20_SameInputsSameOutput ==
    (pc = "rebuilt" /\ rerun_orgs = organizations) => rerun = nested

\* both runs read the same tables and wrote the same list, in which an
\* organization has two donor countries, that a set held, and a project
C20_Witness ==
    /\ pc = "rebuilt"
    /\ rerun_orgs = organizations
    /\ rerun = nested
    /\ \E n \in DOMAIN rerun :
          /\ Len(rerun[n].donor_countries) = 2
          /\ Len(rerun[n].agencies) = 2
          /\ rerun[n].projects # <<>>

\* the fields an absent one of which the build reads as empty
Lacks(fields, keys) == \A key \in keys : key \notin DOMAIN fields

donor_keys ==
    {"Org Donor Agencies", "Org Donor Agencies (Linked)", "Org Donor Agencies (from Agency)"}

org_name_keys == {"Org Full Name", "Org Short Name", "Organization"}

\* the entry holds the agency at organization level
Carries(entry, agency) == \E k \in DOMAIN entry.agencies : entry.agencies[k] = agency

\* the entry holds the agency under one of its projects
CarriesInProject(entry, agency) ==
    \E k \in DOMAIN entry.projects : \E j \in DOMAIN entry.projects[k].agencies :
        entry.projects[k].agencies[j] = agency

\* C19: what a record lacks is read as empty and matches nothing. An
\* organization without donor-agency field gets no agencies and no donor
\* countries; one without names and without id gets no name and no projects;
\* an agency without name is carried by no organization, an agency without id
\* by no project, and agencies without country give no donor country; a
\* project without provider is under no organization, and a project without
\* donor-agency ids has an empty agencies list. A record without fields is a
\* record lacking every field. The build reaches its end with one record for
\* each organization.
C19_MissingFieldsMatchNothing ==
    /\ pc \in {"built", "rebuilt"} => Len(nested) = Len(organizations)
    /\ InBuild => \A n \in DOMAIN nested :
          LET org == organizations[n]
              entry == nested[n]
          IN /\ Lacks(org.fields, donor_keys) =>
                    entry.agencies = <<>> /\ entry.donor_countries = <<>>
             /\ (Lacks(org.fields, org_name_keys) /\ org.id = None) =>
                    entry.name = None /\ entry.projects = <<>>
             /\ (\A k \in DOMAIN entry.agencies :
                    Lacks(entry.agencies[k].fields, {"Country Name"})) =>
                    entry.donor_countries = <<>>
             /\ \A m \in DOMAIN agencies :
                    /\ Lacks(agencies[m].fields, {name_fields[k] : k \in DOMAIN name_fields}) =>
                            ~Carries(entry, agencies[m])
                    /\ agencies[m].id = None => ~CarriesInProject(entry, agencies[m])
             /\ \A m \in DOMAIN projects :
                    Lacks(projects[m].fields, provider_keys) => ~Attached(entry, projects[m])
             /\ \A k \in DOMAIN entry.projects :
                    Lacks(entry.projects[k].fields, {"Project Donor Agencies"}) =>
                        entry.projects[k].agencies = <<>>

\* the build is over on tables where the first agency has no fields and the
\* first organization and the first project have no id: three records are
\* written, the first organization finds no agency under the name it lists,
\* and it holds the project without id, which has no donor-agency ids and an
\* empty agencies list
C19_Witness ==
    /\ pc = "built"
    /\ Len(nested) = 3
    /\ agencies[1].fields = NoFields
    /\ organizations[1].id = None
    /\ projects[1].id = None
    /\ ~Lacks(organizations[1].fields, donor_keys)
    /\ nested[1].agencies = <<>>
    /\ \E k \in DOMAIN nested[1].projects :
          /\ nested[1].projects[k].id = None
          /\ Lacks(nested[1].projects[k].fields, {"Project Donor Agencies"})
          /\ nested[1].projects[k].agencies = <<>>

-----------------------------------------------------------------------------
(* Properties of the agency matching *)

\* the donor-agency aliases of match_agencies, in priority order
donor_aliases ==
    <<"Org Donor Agencies", "Org Donor Agencies (Linked)", "Org Donor Agencies (from Agency)">>

\* the first alias, in the order of names, that is a key of the fields has an
\* empty value
FirstAliasEmpty(fields, names) ==
    \E k \in DOMAIN names :
        /\ names[k] \in DOMAIN fields
        /\ \A j \in 1..(k - 1) : names[j] \notin DOMAIN fields
        /\ ~Truthy(fields[names[k]])

\* C21: when the first donor-agency alias present in the fields of an
\* organization has an empty value, no later alias is consulted and no agency
\* is matched: match_agencies of the build leaves the agencies of the entry
\* empty, and match_agencies_to_organization of nesting.py returns nothing.
C21_FirstPresentAliasWins ==
    /\ InBuild =>
          \A n \in DOMAIN nested :
              FirstAliasEmpty(organizations[n].fields, donor_aliases) =>
                  nested[n].agencies = <<>>
    /\ pc = "nesting_indexed" =>
          \A n \in DOMAIN organizations :
              FirstAliasEmpty(organizations[n].fields, agency_field_candidates) =>
                  match_agencies_to_organization(organizations[n].fields,
                                                 n_agencies_by_name) = <<>>

\* match_agencies_to_organization of nesting.py does as C21 says: it stops at
\* the first alias that is a key of the fields
C21_HoldsInNesting ==
    pc = "nesting_indexed" =>
        \A n \in DOMAIN organizations :
            FirstAliasEmpty(organizations[n].fields, agency_field_candidates) =>
                match_agencies_to_organization(organizations[n].fields,
                                               n_agencies_by_name) = <<>>

\* the buckets of the name index under the normalized tokens from the k-th on,
\* one after the other
RECURSIVE BucketsFrom(_, _, _)
BucketsFrom(toks, by_name, k) ==
    IF k > Len(toks) THEN <<>>
    ELSE LET key == lower(strip(toks[k])) IN
         (IF \E n \in DOMAIN by_name : by_name[n].k = key
          THEN by_name[CHOOSE n \in DOMAIN by_name : by_name[n].k = key].v
          ELSE <<>>) \o BucketsFrom(toks, by_name, k + 1)

\* the bucket of the index under the key, empty when the key is not in it
BucketOr(index, key) ==
    IF \E n \in DOMAIN index : index[n].k = key
    THEN index[CHOOSE n \in DOMAIN index : index[n].k = key].v
    ELSE <<>>

\* the agencies attached are those of the token path when a token matches, and
\* otherwise those of the owner path: by canonical name, then by identifier
FromOnePath(attached, toks, by_name, by_owner, org) ==
    IF \E k \in DOMAIN toks : \E n \in DOMAIN by_name : by_name[n].k = lower(strip(toks[k]))
    THEN attached = BucketsFrom(toks, by_name, 1)
    ELSE LET name == OrgName(org)
             by_canonical == IF IsStr(name) THEN BucketOr(by_owner, name.v) ELSE <<>>
             by_identifier == IF IsStr(org.id) THEN BucketOr(by_owner, org.id.v) ELSE <<>>
         IN attached = IF by_canonical # <<>> THEN by_canonical ELSE by_identifier

\* the donor-agency tokens of nesting.py main: the tokens of a text, the str
\* items of a list
NestingDonorTokens(raw) ==
    IF IsStr(raw) THEN nesting_split_respecting_parentheses(raw.v)
    ELSE IF IsList(raw) THEN StrItems(raw.v)
    ELSE <<>>

\* C22 for nesting.py: in every entry nesting.py main has built, the attached
\* agencies are the buckets of the matching tokens in token order when a token
\* matches the name index, and otherwise the by_owner bucket of the canonical
\* name, else that of the identifier, else none.
C22_HoldsInNesting ==
    pc \in {"nesting_indexed", "nesting_built"} =>
        \A n \in DOMAIN n_nested :
            FromOnePath(n_nested[n].agencies,
                        NestingDonorTokens(DonorField(organizations[n].fields)),
                        n_agencies_by_name, n_agencies_by_org, organizations[n])

\* an entry of nesting.py by the token path, and one by the owner path
C22_NestingWitness ==
    /\ pc = "nesting_built"
    /\ Len(agencies) = 2
    /\ Len(n_nested) = 1
    /\ n_nested[1].agencies = <<agencies[1]>>
    /\ \/ /\ Get(agencies[1].fields, "Name") = Str(AFD)
          /\ Get(agencies[2].fields, "Organization") = Str(NameX)
          /\ Truthy(DonorField(organizations[1].fields))
       \/ /\ Get(agencies[1].fields, "Organization") = Str(OrgId(1))
          /\ Get(agencies[2].fields, "Name") = Str(AFD)
          /\ ~Truthy(DonorField(organizations[1].fields))

\* C22: in every entry built, by 02_build_nested_data.py or by nesting.py,
\* the attached agencies come from exactly one of two paths: when at least one
\* donor-agency token matches the name index they are the by_name buckets of
\* the matching tokens, in token order; when none matches they are the by_owner
\* bucket of the canonical name, else that of the identifier, else none.
C22_AgenciesFromOnePath ==
    /\ InBuild =>
        \A n \in DOMAIN nested :
            FromOnePath(nested[n].agencies, DonorTokens(DonorField(organizations[n].fields)),
                        agencies_by_name, nesting_agency_indices(agencies).by_org,
                        organizations[n])
    /\ C22_HoldsInNesting

-----------------------------------------------------------------------------
(* Properties of the project matching and of the project index *)

\* the records of cat whose id no earlier record of cat has, in the order of cat
RECURSIVE FirstSeenFrom(_, _)
FirstSeenFrom(cat, k) ==
    IF k > Len(cat) THEN <<>>
    ELSE (IF \E j \in 1..(k - 1) : cat[j].id = cat[k].id THEN <<>> ELSE <<cat[k]>>)
         \o FirstSeenFrom(cat, k + 1)

\* the bucket of the first key of the index, in the order of the index, that
\* equals the name when both are lowered
FirstCaseBucket(index, name) ==
    IF \E n \in DOMAIN index : lower(index[n].k) = lower(name)
    THEN index[CHOOSE n \in DOMAIN index :
                    /\ lower(index[n].k) = lower(name)
                    /\ \A m \in 1..(n - 1) : lower(index[m].k) # lower(name)].v
    ELSE <<>>

\* index[name] if name is a key, then index[id] if id is a key, then the bucket
\* of the first key equal to name up to case, deduplicated by id in first-seen
\* order
ThreeStrategies(index, name, id) ==
    FirstSeenFrom(BucketOr(index, name) \o BucketOr(index, id) \o FirstCaseBucket(index, name), 1)

\* the records of the input table behind nested projects
AsGiven(ps) == [k \in DOMAIN ps |-> [id |-> ps[k].id, fields |-> ps[k].fields]]

\* the organizations whose name and identifier arguments a run passes
Named(orgs) ==
    {[name |-> PyStrOf(PyOr(OrgName(orgs[n]), Str(<<>>))),
      id |-> PyStrOf(PyOr(orgs[n].id, Str(<<>>)))] : n \in DOMAIN orgs}

\* C23 when the index has no empty key: the projects of every entry built, and
\* the result of both matching functions for every organization, are the three
\* strategies deduplicated by id in first-seen order.
C23_HoldsWithoutEmptyKey ==
    /\ (InBuild /\ ~DictHas(projects_by_org, <<>>)) =>
        /\ \A n \in DOMAIN nested :
            AsGiven(nested[n].projects) =
                ThreeStrategies(projects_by_org, EntryName(nested[n]), EntryId(nested[n]))
        /\ \A o \in Named(organizations) :
            match_projects(o.name, o.id, projects_by_org) =
                ThreeStrategies(projects_by_org, o.name, o.id)
    /\ (pc = "nesting_indexed" /\ ~DictHas(n_projects_by_org, <<>>)) =>
        \A o \in Named(organizations) :
            match_projects_to_organization(o.name, o.id, n_projects_by_org) =
                ThreeStrategies(n_projects_by_org, o.name, o.id)

\* an index with the keys 'x' and 'X' in this order, and the entry of the
\* organization X with the projects of both
C23_CaseWitness ==
    /\ pc = "built"
    /\ Len(projects_by_org) = 2
    /\ projects_by_org[1].k = lower(NameX)
    /\ projects_by_org[2].k = NameX
    /\ nested[1].name = Str(NameX)
    /\ Len(nested[1].projects) = 2
    /\ nested[1].projects[1].id = Str(ProjectId(2))

\* C23: match_projects(name, id, index), and match_projects_to_organization of
\* nesting.py, equal the first-seen deduplication by project id of index[name]
\* (if name is a key), then index[id] (if id is a key), then the projects of the
\* first key in index order that equals name case-insensitively; the projects
\* of every entry built are that list.
C23_ThreeStrategiesDeduplicated ==
    /\ InBuild =>
        /\ \A n \in DOMAIN nested :
            AsGiven(nested[n].projects) =
                ThreeStrategies(projects_by_org, EntryName(nested[n]), EntryId(nested[n]))
        /\ \A o \in Named(organizations) :
            match_projects(o.name, o.id, projects_by_org) =
                ThreeStrategies(projects_by_org, o.name, o.id)
    /\ pc = "nesting_indexed" =>
        \A o \in Named(organizations) :
            match_projects_to_organization(o.name, o.id, n_projects_by_org) =
                ThreeStrategies(n_projects_by_org, o.name, o.id)

\* the keys of the index are non-empty and carry no space at either end
KeysTrimmed(index) ==
    \A n \in DOMAIN index : index[n].k # <<>> /\ strip(index[n].k) = index[n].k

\* the positions in the table of the records of a bucket
PositionsIn(table, bucket) ==
    [k \in DOMAIN bucket |-> CHOOSE n \in DOMAIN table : table[n] = bucket[k]]

\* every bucket lists records of the table by increasing position
InInputOrder(index, table) ==
    \A n \in DOMAIN index :
        /\ \A k \in DOMAIN index[n].v : \E m \in DOMAIN table : table[m] = index[n].v[k]
        /\ \A j, k \in DOMAIN index[n].v :
            j < k => PositionsIn(table, index[n].v)[j] <= PositionsIn(table, index[n].v)[k]

\* C30 but for the empty key: no key of the project index carries a space at
\* either end, and every bucket lists projects of the table in input order.
C30_BucketsInInputOrder ==
    InBuild =>
        /\ \A n \in DOMAIN projects_by_org : strip(projects_by_org[n].k) = projects_by_org[n].k
        /\ InInputOrder(projects_by_org, projects)

\* C30: every key of the index build_project_index returns is a non-empty
\* string without leading or trailing whitespace, for the three shapes of the
\* provider field, and every bucket lists its projects in input order.
C30_KeysNonEmptyTrimmed ==
    InBuild => KeysTrimmed(projects_by_org) /\ InInputOrder(projects_by_org, projects)

-----------------------------------------------------------------------------
(* Properties of the filter *)

\* the organization has an org-level agency of Germany whose name is selected
HasSelectedGermanAgency(record, selected) ==
    \E k \in DOMAIN record.agencies :
        LET f == record.agencies[k].fields IN
        /\ "Country Name" \in DOMAIN f
        /\ f["Country Name"] = Str(Germany)
        /\ "Agency/Department Name" \in DOMAIN f
        /\ \E m \in DOMAIN selected : f["Agency/Department Name"] = Str(selected[m])

Shown(org) == \E k \in DOMAIN germany_with_agencies_orgs : germany_with_agencies_orgs[k] = org

ShownByCountry(org) == \E k \in DOMAIN germany_only_orgs : germany_only_orgs[k] = org

Excluded(org) == \E k \in DOMAIN excluded_orgs : excluded_orgs[k].org = org

\* C3: an organization with an org-level agency of the target country whose
\* name is selected is shown, with every one of its projects visible, in order.
C3_SelectedAgencyShowsAllProjects ==
    /\ (pc \in {"filter2", "done"} /\ i > 1 /\ selected_agencies # <<>>
        /\ HasSelectedGermanAgency(nested[i - 1], selected_agencies)) =>
          /\ should_show
          /\ visible_projects = nested[i - 1].projects
    /\ pc \in {"done", "crashed"} =>
          \A n \in DOMAIN nested :
              HasSelectedGermanAgency(nested[n], selected_agencies) => Shown(nested[n])

\* what holds of C3 in the runs that get_all_donors lets finish
C3_HoldsUnlessTypeError ==
    /\ (pc \in {"filter2", "done"} /\ i > 1 /\ selected_agencies # <<>>
        /\ HasSelectedGermanAgency(nested[i - 1], selected_agencies)) =>
          /\ should_show
          /\ visible_projects = nested[i - 1].projects
    /\ pc = "done" =>
          \A n \in DOMAIN nested :
              HasSelectedGermanAgency(nested[n], selected_agencies) => Shown(nested[n])

\* C4: under the combined filter an organization with no selected org-level
\* agency of the target country and no project with a selected own agency of
\* the target country is not shown, even when the target country is among its
\* donor countries through a project-level agency outside the selection.
C4_NoSelectedAgencyNotShown ==
    \A n \in DOMAIN nested :
        (/\ ~HasSelectedGermanAgency(nested[n], selected_agencies)
         /\ \A k \in DOMAIN nested[n].projects :
               ~HasSelectedGermanAgency(nested[n].projects[k], selected_agencies)) =>
            /\ ~Shown(nested[n])
            /\ (pc = "done" /\ Germany \in get_all_donors(nested[n]).donors) => Excluded(nested[n])

C4_Witness ==
    /\ pc = "done"
    /\ selected_agencies = <<FFO>>
    /\ \E n \in DOMAIN nested :
          /\ nested[n].agencies = <<>>
          /\ Len(nested[n].projects) = 1
          /\ nested[n].projects[1].agencies # <<>>
          /\ \A k \in DOMAIN nested[n].projects[1].agencies :
                nested[n].projects[1].agencies[k].fields = AgUnlisted
          /\ Germany \in get_all_donors(nested[n]).donors
          /\ ~Shown(nested[n])
          /\ Excluded(nested[n])

\* the organization passes the country gate of the FILTER 2 loop
PassesGate(org) ==
    ~get_all_donors(org).raised /\ Germany \in get_all_donors(org).donors

\* should_show_org of an organization whose visible projects are visible
ShouldShowOrg(org, visible, selected) ==
    Len(visible) > 0 \/ (selected # <<>> /\ HasSelectedGermanAgency(org, selected))

\* C24: the show decision the FILTER 2 loop computes for an organization equals
\* len(visible_projects) > 0 OR (the selected set is non-empty AND the
\* organization has a selected org-level agency), for every selected set, the
\* empty one included: the organizations past the country gate are shown or
\* excluded by it, and with an empty selected set none is shown.
C24_ShowDecisionAsSpecified ==
    /\ (pc \in {"filter2", "done"} /\ i > 1 /\ PassesGate(nested[i - 1])) =>
          should_show = ShouldShowOrg(nested[i - 1], visible_projects, selected_agencies)
    /\ pc \in {"filter2", "done"} =>
          \A n \in 1..(i - 1) :
              PassesGate(nested[n]) =>
                  /\ Shown(nested[n]) <=>
                        ShouldShowOrg(nested[n],
                                      SelectSeq(nested[n].projects,
                                                LAMBDA p :
                                                    \/ HasSelectedGermanAgency(nested[n], selected_agencies)
                                                    \/ HasSelectedGermanAgency(p, selected_agencies)),
                                      selected_agencies)
                  /\ Excluded(nested[n]) <=> ~Shown(nested[n])
    /\ selected_agencies = <<>> => germany_with_agencies_orgs = <<>>

\* a finished run with the empty selected set in which an organization with
\* projects and the org-level agency FFO of Germany is past the gate and excluded
C24_Witness ==
    /\ pc = "done"
    /\ selected_agencies = <<>>
    /\ ~should_show
    /\ \E n \in DOMAIN nested :
          /\ PassesGate(nested[n])
          /\ HasSelectedGermanAgency(nested[n], <<FFO>>)
          /\ nested[n].projects # <<>>
          /\ Excluded(nested[n])

\* the show decision of lines 126-136 for the organization and the selected names
ShowDecision(org, selected) ==
    ShouldShow(VisibleProjects(org.projects, selected, org_has_selected_agency(org, selected)),
               org_has_selected_agency(org, selected))

\* C27: for every nested organization the build has written and every selected
\* list, if the show decision holds (a project is visible or the organization
\* has a selected org-level agency of the target country) then the target
\* country is in get_all_donors(org); the organizations a run shows are past
\* the country gate.
C27_ShowImpliesCountryGate ==
    /\ pc = "built" =>
          \A n \in DOMAIN nested : \A selected \in SelectedChoices :
              ShowDecision(nested[n], selected) => PassesGate(nested[n])
    /\ pc \in {"filter2", "done"} =>
          \A k \in DOMAIN germany_with_agencies_orgs : PassesGate(germany_with_agencies_orgs[k])

\* what holds of C27 for the organizations on which get_all_donors returns
C27_HoldsUnlessTypeError ==
    /\ pc = "built" =>
          \A n \in DOMAIN nested : \A selected \in SelectedChoices :
              (ShowDecision(nested[n], selected) /\ ~get_all_donors(nested[n]).raised) =>
                  Germany \in get_all_donors(nested[n]).donors
    /\ pc \in {"filter2", "done"} =>
          \A k \in DOMAIN germany_with_agencies_orgs : PassesGate(germany_with_agencies_orgs[k])

\* an organization whose show decision holds through a project-level agency
\* alone, past the country gate and shown
C27_UnlessWitness ==
    /\ pc = "done"
    /\ selected_agencies = <<UnlistedAgency>>
    /\ \E n \in DOMAIN nested :
          /\ nested[n].agencies = <<>>
          /\ ShowDecision(nested[n], selected_agencies)
          /\ Shown(nested[n])

\* the selected lists two filter runs are compared on
WiderChoices == SelectedChoices \cup {<<FFO, UnlistedAgency>>, <<UnlistedAgency, FFO>>}

\* every name of the list a is a name of the list b
NamesWithin(a, b) == \A k \in DOMAIN a : \E m \in DOMAIN b : b[m] = a[k]

\* the organization is shown by a run of the FILTER 2 loop with the selected names
ShownUnder(org, selected) == PassesGate(org) /\ ShowDecision(org, selected)

\* the list a is the list b with some positions left out
RECURSIVE IsSubList(_, _)
IsSubList(a, b) ==
    IF a = <<>> THEN TRUE
    ELSE IF b = <<>> THEN FALSE
    ELSE IF Head(a) = Head(b) THEN IsSubList(Tail(a), Tail(b))
    ELSE IsSubList(a, Tail(b))

\* C28: the combined filter is monotone in the selected list: an organization
\* the finished run shows, and every project visible in it, is shown and
\* visible under every list that holds the selected names and more; the shown
\* organizations are among those the country-only filter shows, and the
\* visible projects of an organization are a sub-list, in order, of its projects.
C28_MonotoneInSelection ==
    /\ pc = "done" =>
          /\ \A n \in DOMAIN nested : \A wider \in WiderChoices :
                NamesWithin(selected_agencies, wider) =>
                    /\ Shown(nested[n]) => ShownUnder(nested[n], wider)
                    /\ ShownUnder(nested[n], selected_agencies) => ShownUnder(nested[n], wider)
                    /\ \A k \in DOMAIN nested[n].projects :
                          project_matches_agency_filter(
                              nested[n].projects[k], selected_agencies,
                              org_has_selected_agency(nested[n], selected_agencies)) =>
                          project_matches_agency_filter(
                              nested[n].projects[k], wider,
                              org_has_selected_agency(nested[n], wider))
          /\ \A n \in DOMAIN nested : Shown(nested[n]) => ShownByCountry(nested[n])
    /\ (pc \in {"filter2", "done"} /\ i > 1 /\ PassesGate(nested[i - 1])) =>
          IsSubList(visible_projects, nested[i - 1].projects)

\* a finished run with FFO selected in which an organization with two projects
\* is shown with only some of them visible, the others being visible under a
\* wider list
C28_Witness ==
    /\ pc = "done"
    /\ selected_agencies = <<FFO>>
    /\ i > 1
    /\ PassesGate(nested[i - 1])
    /\ Shown(nested[i - 1])
    /\ visible_projects # <<>>
    /\ Len(visible_projects) < Len(nested[i - 1].projects)
    /\ Len(VisibleProjects(nested[i - 1].projects, <<FFO, UnlistedAgency>>, FALSE))
          > Len(visible_projects)

\* the countries of the agencies of the organization and of its projects
RECURSIVE CountriesOfProjects(_)
CountriesOfProjects(ps) ==
    IF ps = <<>> THEN {}
    ELSE extract_donor_countries(Head(ps).agencies) \cup CountriesOfProjects(Tail(ps))

AllCountries(record) == extract_donor_countries(record.agencies) \cup CountriesOfProjects(record.projects)

RECURSIVE SumProjects(_)
SumProjects(orgs) == IF orgs = <<>> THEN 0 ELSE Len(Head(orgs).projects) + SumProjects(Tail(orgs))

\* C5: country-only filtering shows an organization if and only if the target
\* country is among the countries of its org-level agencies and of the
\* agencies of its projects, and a shown organization contributes all of its
\* projects.
C5_CountryOnlyShowsIffDonor ==
    pc \in {"filter2", "done", "crashed"} =>
        /\ \A n \in DOMAIN nested : ShownByCountry(nested[n]) <=> Germany \in AllCountries(nested[n])
        /\ germany_only_projects = SumProjects(germany_only_orgs)

\* C6: get_all_donors(org) is a superset of org.donor_countries, for every
\* shape of the country field the aggregator accepts.
C6_AllDonorsCoverDonorCountries ==
    \A n \in DOMAIN nested :
        /\ ~get_all_donors(nested[n]).raised
        /\ \A k \in DOMAIN nested[n].donor_countries :
              nested[n].donor_countries[k] \in get_all_donors(nested[n]).donors

-----------------------------------------------------------------------------
(* Tokenizer properties *)

\* the quote character left open by the first n characters of s ("" when none)
RECURSIVE RefQuote(_, _)
RefQuote(s, n) ==
    IF n = 0 THEN ""
    ELSE LET q == RefQuote(s, n - 1) IN
         IF q = "" THEN (IF s[n] \in QuoteChars THEN s[n] ELSE "")
         ELSE IF s[n] = q THEN "" ELSE q

\* the number of groups left open by the first n characters of s, counting
\* only parentheses outside quotes and never going below zero
RECURSIVE RefDepth(_, _)
RefDepth(s, n) ==
    IF n = 0 THEN 0
    ELSE LET d == RefDepth(s, n - 1) IN
         IF RefQuote(s, n - 1) # "" \/ s[n] \notin {"(", ")"} THEN d
         ELSE IF s[n] = "(" THEN d + 1
         ELSE IF d = 0 THEN 0 ELSE d - 1

\* the positions at which a token ends
RefCuts(s) ==
    {n \in 1..Len(s) : s[n] \in SplitChars /\ RefDepth(s, n - 1) = 0 /\ RefQuote(s, n - 1) = ""}

RefNextCut(s, a) ==
    IF \E c \in RefCuts(s) : c >= a
    THEN CHOOSE c \in RefCuts(s) : c >= a /\ \A c2 \in RefCuts(s) : c2 >= a => c <= c2
    ELSE Len(s) + 1

\* the trimmed, non-empty pieces of s between consecutive cuts, from position a on
RECURSIVE RefTokensFrom(_, _)
RefTokensFrom(s, a) ==
    IF a > Len(s) THEN <<>>
    ELSE LET e == RefNextCut(s, a)
             piece == strip(SubSeq(s, a, e - 1))
         IN (IF piece # <<>> THEN <<piece>> ELSE <<>>) \o RefTokensFrom(s, e + 1)

\* C7: a token ends at a ',' or ';' exactly when the parenthesis depth is 0 and
\* no quote is open there; every other character stays in its token and the
\* tokens come in input order.  tokenize("A (B, C), D") = ["A (B, C)", "D"],
\* tokenize("'A, B', C") = ["A, B", "C"], tokenize("") = [].
C7_SplitsOnlyAtTopLevel ==
    tpc = "done" =>
        /\ tokens = RefTokensFrom(text, 1)
        /\ (text = ExSplitParen =>
                cleaned = << <<"A", " ", "(", "B", ",", " ", "C", ")">>, <<"D">> >>)
        /\ (text = ExSplitQuote => cleaned = << <<"A", ",", " ", "B">>, <<"C">> >>)
        /\ (text = <<>> => cleaned = <<>>)

C7_Witness ==
    /\ tpc = "done"
    /\ text = ExSplitParen
    /\ Len(cleaned) = 2

NoneOf(s, chars) == \A k \in DOMAIN s : s[k] \notin chars

\* C8: the depth is never negative; a ')' met at depth 0 leaves it at 0, so a
\* ',' or ';' after a stray ')' outside any group still splits; tokenize("A))")
\* returns the single token "A))".
C8_DepthNeverNegative ==
    /\ depth >= 0
    /\ (tpc \in {"loop", "done"} =>
          LET seen == SubSeq(text, 1, tpos - 1) IN
          /\ NoneOf(seen, {"("}) => depth = 0
          /\ NoneOf(seen, {"("} \cup QuoteChars) => NoneOf(current, SplitChars))
    /\ (tpc = "done" /\ text = ExStrayParen => cleaned = <<ExStrayParen>>)

C8_Witness ==
    /\ tpc = "done"
    /\ text = <<"a", ")", ",", "a">>
    /\ cleaned = << <<"a", ")">>, <<"a">> >>

\* C9: every returned token is non-empty and has no leading or trailing
\* whitespace, after the quote-stripping step.
C9_TokensNonEmptyTrimmed ==
    tpc = "done" =>
        \A k \in DOMAIN cleaned :
            /\ cleaned[k] # <<>>
            /\ ~IsSpace(cleaned[k][1])
            /\ ~IsSpace(cleaned[k][Len(cleaned[k])])

\* the returned tokens that are not wrapped in quotes are non-empty and trimmed
C9_UnquotedTokensNonEmptyTrimmed ==
    tpc = "done" =>
        \A k \in DOMAIN cleaned :
            cleaned[k] = tokens[k] =>
                /\ cleaned[k] # <<>>
                /\ ~IsSpace(cleaned[k][1])
                /\ ~IsSpace(cleaned[k][Len(cleaned[k])])

\* the '(' less the ')' among the first n characters of s
RECURSIVE Surplus(_, _)
Surplus(s, n) ==
    IF n = 0 THEN 0
    ELSE Surplus(s, n - 1) + (IF s[n] = "(" THEN 1 ELSE IF s[n] = ")" THEN -1 ELSE 0)

\* no ')' of s comes without an earlier '(' of its own
NeverClosedUnopened(s) == \A n \in DOMAIN s : Surplus(s, n) >= 0

\* C29 for the texts in which no ')' closes an unopened group: on a text
\* without quote characters the tokenizer of nesting.py returns the list the
\* tokenizer of _utils.py returns, an unclosed '(' included.
C29_AgreeUnlessClosedUnopened ==
    (tpc = "done" /\ NoneOf(text, QuoteChars) /\ NeverClosedUnopened(text)) =>
        nesting_split_respecting_parentheses(text) = cleaned

\* a text with an unclosed '(' on which the two tokenizers return the one token
C29_UnclosedWitness ==
    /\ tpc = "done"
    /\ text = <<"(", "a", ",", "a">>
    /\ cleaned = <<text>>
    /\ nesting_split_respecting_parentheses(text) = <<text>>

\* C29: for every text without a ' or " character, split_respecting_parentheses
\* of nesting.py returns the token list that split_respecting_parentheses of
\* _utils.py returns, texts with unbalanced parentheses included.
C29_TokenizersAgreeOnQuoteFree ==
    (tpc = "done" /\ NoneOf(text, QuoteChars)) =>
        nesting_split_respecting_parentheses(text) = cleaned

-----------------------------------------------------------------------------
(* Properties of 01_fetch_airtable.py and of fetch_all_records *)

\* the call on the table is over: the list was returned or the page raised
CallOver(t) == f_returned[t].state \in {"returned", "raised"}

\* a field of the names that none of the first 10 records carries
SomeFieldMissing(names, records) ==
    \E field \in names : \A k \in DOMAIN records : k <= 10 => field \notin records[k].fields

\* the lists do not meet the requirements: too few projects or organizations,
\* or a required field in none of the first 10 records
BelowRequirements(ps, orgs) ==
    \/ Len(ps) < 100
    \/ Len(orgs) < 50
    \/ SomeFieldMissing(AllOf(ProjectFields), ps)
    \/ SomeFieldMissing(AllOf(OrganizationFields) \ OPTIONAL_ORGANIZATION_FIELDS, orgs)

\* the data has been validated
Validated == f_pc \in {"nesting", "exited"} /\ f_config.keys /\ CallOver("projects")
             /\ f_returned["projects"].state = "returned"

\* C25: the nesting script is launched only after the fetch of every
\* configured table is over and the validation has found no error; whenever
\* the validation finds one (fewer than 100 projects, fewer than 50
\* organizations, a failed or unconfigured organization fetch included, or a
\* required field in none of the first 10 records) the process has exited with
\* status 1 and the nesting script is not launched.
C25_NestingOnlyAfterValidFetch ==
    /\ f_launched =>
        /\ \A k \in DOMAIN Tables : f_config[Tables[k]] => CallOver(Tables[k])
        /\ f_table = ""
        /\ f_pc \in {"nesting", "exited"}
        /\ f_errors = <<>>
        /\ ~BelowRequirements(ListOf(f_returned, "projects"), ListOf(f_returned, "organizations"))
    /\ (Validated /\ BelowRequirements(ListOf(f_returned, "projects"),
                                       ListOf(f_returned, "organizations"))) =>
        /\ f_errors # <<>>
        /\ f_pc = "exited"
        /\ f_status = 1
        /\ ~f_launched
    /\ (Validated /\ f_returned["organizations"].state # "returned") =>
        f_pc = "exited" /\ f_status = 1 /\ ~f_launched
    /\ f_errors # <<>> => f_pc = "exited" /\ f_status = 1 /\ ~f_launched
    /\ f_pc \in {"start", "fetching", "fetched"} => ~f_launched

\* the nesting script runs after a fetch of two pages of projects and a failed
\* fetch of the agencies
C25_Witness ==
    /\ f_pc = "nesting"
    /\ f_launched
    /\ Len(f_got["projects"]) = 2
    /\ Len(f_returned["projects"].records) = 100
    /\ f_returned["agencies"].state = "raised"
    /\ f_errors = <<>>

\* the process exits with status 1 after 100 projects and a failed fetch of the
\* organizations, whose first page held 50 of them
C25_ErrorWitness ==
    /\ f_pc = "exited"
    /\ f_status = 1
    /\ ~f_launched
    /\ Len(f_returned["projects"].records) = 100
    /\ f_returned["organizations"].state = "raised"
    /\ Len(f_got["organizations"][1].records) = 50
    /\ f_errors # <<>>

\* the records of the responses, one page after the other
RECURSIVE RecordsOfPages(_)
RecordsOfPages(got) ==
    IF got = <<>> THEN <<>>
    ELSE RecordsOfPages(SubSeq(got, 1, Len(got) - 1)) \o got[Len(got)].records

\* following the offsets from page k, a page without offset or a page that is
\* not ok is met within fuel pages
RECURSIVE ChainEnds(_, _, _)
ChainEnds(pages, k, fuel) ==
    IF ~pages[k].ok \/ ~Truthy(pages[k].offset) THEN TRUE
    ELSE IF fuel = 0 THEN FALSE
    ELSE ChainEnds(pages, CHOOSE n \in DOMAIN pages : Str(PageToken(n)) = pages[k].offset,
                   fuel - 1)

\* the calls of fetch_all_records so far, table by table: a request is made
\* when the one before is answered and carries the offset of that answer;
\* every answer but the last was ok and carried an offset; a returned list is
\* the records of all answers in order and follows an answer without offset; a
\* page that is not ok ends the call with no list and no file
CallsPageByPage ==
    \A n \in DOMAIN Tables :
        LET t == Tables[n]
            sent == f_sent[t]
            got == f_got[t]
        IN /\ Len(sent) = Len(got)
           /\ \A k \in DOMAIN sent :
                sent[k] = IF k = 1 THEN None ELSE got[k - 1].offset
           /\ \A k \in DOMAIN got :
                k < Len(got) => got[k].ok /\ got[k].offset # None /\ got[k].offset # Str(<<>>)
           /\ f_returned[t].state = "returned" =>
                /\ got # <<>>
                /\ got[Len(got)].ok
                /\ got[Len(got)].offset \in {None, Str(<<>>)}
                /\ f_returned[t].records = RecordsOfPages(got)
                /\ t \in f_saved
           /\ f_returned[t].state = "raised" =>
                /\ got # <<>>
                /\ ~got[Len(got)].ok
                /\ f_returned[t].records = <<>>
                /\ t \notin f_saved
           /\ f_returned[t].state = "none" =>
                /\ t \notin f_saved
                /\ (f_table = t => f_all_records = RecordsOfPages(got))
                /\ (f_table # t => got = <<>>)
           /\ CallOver(t) => f_table # t

\* C26: fetch_all_records requests the pages one at a time, each request with
\* the offset of the page before, and returns the records of all pages in page
\* order right after the first page without offset; a page error ends the call
\* without a list; and a call on a table whose chain of offsets ends on the
\* server ends, and the process exits when every chain ends.
C26_PagesInOrderUntilNoOffset ==
    /\ []CallsPageByPage
    /\ \A n \in DOMAIN Tables :
          (f_table = Tables[n] /\ ChainEnds(f_server[Tables[n]], 1, MaxPages))
              ~> CallOver(Tables[n])
    /\ (\A n \in DOMAIN Tables : ChainEnds(f_server[Tables[n]], 1, MaxPages)) => <>(f_pc = "exited")

\* a call that returned the records of three pages, asked for in the order
\* 1, 3, 2 of the offsets
C26_Witness ==
    /\ f_returned["projects"].state = "returned"
    /\ Len(f_got["projects"]) = 3
    /\ f_sent["projects"] = <<None, Str(PageToken(3)), Str(PageToken(2))>>
    /\ f_returned["projects"].records =
          ProjectsOfPage(1, 1) \o ProjectsOfPage(3, 1) \o ProjectsOfPage(2, 1)

====
